---- MODULE Spec2Model ----
(***************************************************************************)
(* Model of the document classification pipeline of src/src/api_client.py: *)
(* rendering and quality gating (process_file_for_api), the retry loop of  *)
(* communicate_with_api / handle_api_error, exponential_backoff,           *)
(* parse_api_response and the orchestration in classify_file.              *)
(* Further sections model process_files of src/src/main.py, rename_file,    *)
(* validate_new_filename and find_file_path of src/src/file_utils.py and    *)
(* the two update functions of src/src/sql_utils.py.                        *)
(*                                                                         *)
(* Python values are modelled as records.  A Python str is a sequence of   *)
(* symbols; a symbol is one character ("{", "\"", "DEL") or stands for a   *)
(* run of ordinary printable characters ("ContentType", "Rental").         *)
(***************************************************************************)
EXTENDS Integers, Sequences, FiniteSets, TLC

VARIABLES
    \* one classify_file / communicate_with_api invocation
    pc, entry, file_path, total_pages, images, index, verdicts, image_data,
    poor_quality_count, temp_files, proc_ret, retry_limit, attempt, calls,
    sleeps, outcomes_seen, api_response, comm_ret, result,
    \* a direct call of parse_api_response
    p_pc, response_data, p_ret,
    \* direct calls of exponential_backoff
    b_pc, retry_number, wait_time, prev_retry_number, prev_wait_time,
    \* direct calls of convert_pdf_to_images
    c_pc, c_total_pages, c_max_pages, c_fault, c_out,
    \* direct calls of check_image_quality
    q_pc, focus_measure, hist_spread, confidences, results, q_ret,
    \* two callers of process_file_for_api running at the same time
    w_doc, w_pc, w_index, w_disk, w_assessed, w_verdicts, w_poor, w_data, w_ret,
    \* one run of process_files of main.py
    f_pc, files, directory, f_next, status_log, history,
    \* direct calls of encode_image_to_base64 and save_image_as_jpeg
    j_pc, j_function, j_mode, j_out, prev_function, prev_mode,
    \* direct calls of rename_file of file_utils.py
    os_name, r_pc, r_disk, r_before, r_original, r_new_name, r_fault, r_ret,
    \* two callers of rename_file of file_utils.py running at the same time
    k_pc, k_disk, k_original, k_new_name, k_new_path, k_counter, k_ret,
    \* a direct call of validate_new_filename
    v_pc, filename, v_ret,
    \* one invocation of find_file_path
    s_pc, max_retries, initial_delay, s_attempt, s_runs, s_sleeps, s_ret,
    \* a direct call of update_renamed_record or update_rename_failed
    d_pc, d_function, d_fault, d_reported, error_message, d_out,
    \* the contract_payments table over runs of selections and updates
    contract_payments, t_runs, t_pending,
    \* one run of main of main.py
    m_pc, deals_info, total_deals, m_batches

pipeVars == <<pc, entry, file_path, total_pages, images, index, verdicts,
              image_data, poor_quality_count, temp_files, proc_ret, retry_limit,
              attempt, calls, sleeps, outcomes_seen, api_response, comm_ret, result>>
parseVars == <<p_pc, response_data, p_ret>>
backoffVars == <<b_pc, retry_number, wait_time, prev_retry_number, prev_wait_time>>
convertVars == <<c_pc, c_total_pages, c_max_pages, c_fault, c_out>>
\* the variables of the direct calls added to the three above
qualityVars == <<q_pc, focus_measure, hist_spread, confidences, results, q_ret>>
workerVars == <<w_doc, w_pc, w_index, w_disk, w_assessed, w_verdicts, w_poor,
                w_data, w_ret>>
filesVars == <<f_pc, files, directory, f_next, status_log, history>>
jpegVars == <<j_pc, j_function, j_mode, j_out, prev_function, prev_mode>>
\* the variables of the calls of file_utils.py and sql_utils.py
renameVars == <<os_name, r_pc, r_disk, r_before, r_original, r_new_name, r_fault,
                r_ret>>
raceVars == <<k_pc, k_disk, k_original, k_new_name, k_new_path,
              k_counter, k_ret>>
validateVars == <<v_pc, filename, v_ret>>
findVars == <<s_pc, max_retries, initial_delay, s_attempt, s_runs, s_sleeps, s_ret>>
sqlVars == <<d_pc, d_function, d_fault, d_reported, error_message, d_out>>
tableVars == <<contract_payments, t_runs, t_pending>>
mainVars == <<m_pc, deals_info, total_deals, m_batches>>
utilVars == <<renameVars, raceVars, validateVars, findVars, sqlVars, tableVars,
              mainVars>>
callVars == <<convertVars, qualityVars, workerVars, filesVars, jpegVars, utilVars>>
\* all variables but those of one group
notConvertVars == <<pipeVars, parseVars, backoffVars, qualityVars, workerVars,
                    filesVars, jpegVars, utilVars>>
notQualityVars == <<pipeVars, parseVars, backoffVars, convertVars, workerVars,
                    filesVars, jpegVars, utilVars>>
notWorkerVars == <<pipeVars, parseVars, backoffVars, convertVars, qualityVars,
                   filesVars, jpegVars, utilVars>>
notFilesVars == <<pipeVars, parseVars, backoffVars, convertVars, qualityVars,
                  workerVars, jpegVars, utilVars>>
notJpegVars == <<pipeVars, parseVars, backoffVars, convertVars, qualityVars,
                 workerVars, filesVars, utilVars>>
notUtilVars == <<pipeVars, parseVars, backoffVars, convertVars, qualityVars,
                 workerVars, filesVars, jpegVars>>
notRenameVars == <<notUtilVars, raceVars, validateVars, findVars, sqlVars,
    tableVars, mainVars>>
notRaceVars == <<notUtilVars, renameVars, validateVars, findVars, sqlVars,
    tableVars, mainVars>>
notValidateVars == <<notUtilVars, renameVars, raceVars, findVars, sqlVars,
    tableVars, mainVars>>
notFindVars == <<notUtilVars, renameVars, raceVars, validateVars, sqlVars,
    tableVars, mainVars>>
notSqlVars == <<notUtilVars, renameVars, raceVars, validateVars, findVars,
    tableVars, mainVars>>
notTableVars == <<notUtilVars, renameVars, raceVars, validateVars, findVars,
    sqlVars, mainVars>>
notMainVars == <<notUtilVars, renameVars, raceVars, validateVars, findVars,
    sqlVars, tableVars>>
vars == <<pipeVars, parseVars, backoffVars, callVars>>

-----------------------------------------------------------------------------
(* Bounds of the model *)

\* largest retry_number handed to exponential_backoff
MaxRetryNumber == 10
\* largest position at which a stray character is inserted into a sample text
MaxNoisePos == 4
\* largest number of pages of an input PDF
MaxDocPages == 5
\* largest retry_limit handed to communicate_with_api
MaxRetryLimit == 7
\* largest number of rendered pages of a document classified by one of two
\* callers at the same time
MaxWorkerPages == 2
\* largest number of files handed to process_files
MaxFiles == 2
\* largest k of a copy "target (k).pdf" present before rename_file is called
MaxCopies == 2
\* largest number of runs of equal characters in a name handed to
\* validate_new_filename
MaxRuns == 2
\* largest max_retries handed to find_file_path
MaxRetries == 3
\* deals found by main
MaxDeals == 3
\* batches of one run of main
MaxBatches == 3
\* rows of contract_payments
MaxRecords == 2
\* SELECTs of get_failed_unprocessed_records in a row
MaxFetches == 2

-----------------------------------------------------------------------------
(* Python values *)

Min(x, y) == IF x <= y THEN x ELSE y

None == [t |-> "none", s |-> <<>>]
Str(chars) == [t |-> "str", s |-> chars]
Num(digits) == [t |-> "num", s |-> digits]
\* a fixed message, abbreviated to one symbol
Msg(text) == Str(<<text>>)

\* bool(value) as used by `if classification:` and `if not image_data:`
Truthy(v) ==
    CASE v.t = "none" -> FALSE
      [] v.t = "str" -> v.s # <<>>
      [] v.t = "num" -> \E i \in 1..Len(v.s) : v.s[i] # "0"
      [] OTHER -> TRUE

-----------------------------------------------------------------------------
(* Characters *)

Quote == "\""
\* U+0000..U+001F: BEL = \x07, LF = \x0a
C0Controls == {"BEL", "LF"}
\* U+007F..U+009F: DEL = \x7f, NEL = \x85
C1Controls == {"DEL", "NEL"}
\* the class [\x00-\x1f\x7f-\x9f] removed by parse_api_response
ControlChars == C0Controls \cup C1Controls
JsonWhitespace == {" ", "LF"}
JsonPunct == {"{", "}", "[", "]", ":", ","}
Digits == {"0", "1"}

-----------------------------------------------------------------------------
(* json.loads on a str: a lexer and a parser over the symbols *)

LexFail == [ok |-> FALSE, toks |-> <<>>]

\* index of the first symbol at or after i that is in (or, is not in) set S,
\* or Len(s) + 1
FirstIn(s, i, S) ==
    LET hits == {j \in i..Len(s) : s[j] \in S} IN
    IF hits = {} THEN Len(s) + 1
    ELSE CHOOSE j \in hits : \A q \in hits : j <= q
FirstNotIn(s, i, S) ==
    LET hits == {j \in i..Len(s) : s[j] \notin S} IN
    IF hits = {} THEN Len(s) + 1
    ELSE CHOOSE j \in hits : \A q \in hits : j <= q

RECURSIVE LexFrom(_, _, _)
LexFrom(s, i, acc) ==
    IF i > Len(s) THEN [ok |-> TRUE, toks |-> acc]
    ELSE LET c == s[i] IN
      CASE c \in JsonWhitespace -> LexFrom(s, i + 1, acc)
        [] c \in JsonPunct -> LexFrom(s, i + 1, Append(acc, [k |-> c, v |-> <<>>]))
        [] c = Quote ->
             LET j == FirstIn(s, i + 1, {Quote}) IN
             IF j > Len(s) THEN LexFail
             \* strict mode: no raw control character below U+0020 in a string
             ELSE IF \E q \in (i + 1)..(j - 1) : s[q] \in C0Controls THEN LexFail
             ELSE LexFrom(s, j + 1,
                          Append(acc, [k |-> "str", v |-> SubSeq(s, i + 1, j - 1)]))
        [] c \in Digits ->
             LET j == FirstNotIn(s, i, Digits)
                 d == SubSeq(s, i, j - 1) IN
             \* no leading zero
             IF Len(d) > 1 /\ d[1] = "0" THEN LexFail
             ELSE LexFrom(s, j, Append(acc, [k |-> "num", v |-> d]))
        [] c = "null" -> LexFrom(s, i + 1, Append(acc, [k |-> "null", v |-> <<>>]))
        [] OTHER -> LexFail

Lex(s) == LexFrom(s, 1, <<>>)

\* JSON values: t in {"null", "num", "str", "list", "obj"}; s the characters
\* of a string or number; m the members of an object
JNull == [t |-> "null", s |-> <<>>, m |-> <<>>]
JNum(d) == [t |-> "num", s |-> d, m |-> <<>>]
JStr(c) == [t |-> "str", s |-> c, m |-> <<>>]
JList == [t |-> "list", s |-> <<>>, m |-> <<>>]
JObj(members) == [t |-> "obj", s |-> <<>>, m |-> members]

ScalarKinds == {"str", "num", "null"}
ScalarOf(tok) ==
    CASE tok.k = "str" -> JStr(tok.v)
      [] tok.k = "num" -> JNum(tok.v)
      [] OTHER -> JNull

\* a Python dict built from members in order: a repeated key keeps its first
\* position and its last value
DictOf(ms) ==
    LET tagged == [i \in 1..Len(ms) |-> [i |-> i, key |-> ms[i].key]]
        firsts == SelectSeq(tagged,
                     LAMBDA e : \A j \in 1..(e.i - 1) : ms[j].key # e.key)
        lastIdx(k) == CHOOSE i \in 1..Len(ms) :
                         /\ ms[i].key = k
                         /\ \A j \in (i + 1)..Len(ms) : ms[j].key # k
    IN [p \in 1..Len(firsts) |->
           [key |-> firsts[p].key, val |-> ms[lastIdx(firsts[p].key)].val]]

ParseFail == [ok |-> FALSE, val |-> JNull]
ParseOk(v) == [ok |-> TRUE, val |-> v]

\* "x, y, z" between brackets: scalars separated by commas
IsScalarList(inner) ==
    \/ Len(inner) = 0
    \/ /\ Len(inner) % 2 = 1
       /\ \A i \in 1..Len(inner) :
            IF i % 2 = 1 THEN inner[i].k \in ScalarKinds ELSE inner[i].k = ","

\* "k: v, k: v" between braces
IsMemberList(inner) ==
    \/ Len(inner) = 0
    \/ /\ Len(inner) % 4 = 3
       /\ \A i \in 1..Len(inner) :
            CASE i % 4 = 1 -> inner[i].k = "str"
              [] i % 4 = 2 -> inner[i].k = ":"
              [] i % 4 = 3 -> inner[i].k \in ScalarKinds
              [] OTHER -> inner[i].k = ","

MembersOf(inner) ==
    [g \in 1..((Len(inner) + 1) \div 4) |->
        [key |-> inner[4 * g - 3].v, val |-> ScalarOf(inner[4 * g - 1])]]

ParseTokens(t) ==
    LET n == Len(t)
        inner == SubSeq(t, 2, n - 1)
    IN CASE n = 0 -> ParseFail
         [] n = 1 /\ t[1].k \in ScalarKinds -> ParseOk(ScalarOf(t[1]))
         [] n >= 2 /\ t[1].k = "[" /\ t[n].k = "]" /\ IsScalarList(inner) ->
              ParseOk(JList)
         [] n >= 2 /\ t[1].k = "{" /\ t[n].k = "}" /\ IsMemberList(inner) ->
              ParseOk(JObj(DictOf(MembersOf(inner))))
         [] OTHER -> ParseFail

json_loads(s) ==
    LET lx == Lex(s) IN IF lx.ok THEN ParseTokens(lx.toks) ELSE ParseFail

\* dict.get(key): the value, or None
DictHas(m, key) == \E i \in 1..Len(m) : m[i].key = key
DictGet(m, key) ==
    IF DictHas(m, key)
    THEN LET v == m[CHOOSE i \in 1..Len(m) : m[i].key = key].val IN
         CASE v.t = "str" -> Str(v.s)
           [] v.t = "num" -> Num(v.s)
           [] OTHER -> None
    ELSE None

\* json.dumps of a scalar and of a dict, with the default separators
DumpScalar(v) ==
    CASE v.t = "str" -> <<Quote>> \o v.s \o <<Quote>>
      [] v.t = "num" -> v.s
      [] OTHER -> <<"null">>

RECURSIVE DumpMembers(_, _)
DumpMembers(m, i) ==
    IF i > Len(m) THEN <<>>
    ELSE (IF i > 1 THEN <<",", " ">> ELSE <<>>)
         \o <<Quote>> \o m[i].key \o <<Quote, ":", " ">> \o DumpScalar(m[i].val)
         \o DumpMembers(m, i + 1)

json_dumps(obj) == <<"{">> \o DumpMembers(obj.m, 1) \o <<"}">>

-----------------------------------------------------------------------------
(* Results of a call *)

NoRet == [st |-> "none", a |-> None, b |-> None]
\* return x, y
Ret(x, y) == [st |-> "return", a |-> x, b |-> y]
\* the function ends without a return statement: the caller receives None
RetNone == [st |-> "return_none", a |-> None, b |-> None]
\* an exception leaves the function
Raise(cause) == [st |-> "raise", a |-> None, b |-> Msg(cause)]

-----------------------------------------------------------------------------
(* exponential_backoff *)

base_delay == 6
factor == 2
max_delay == 60

\* a backoff without the cap
exponential_backoff_uncapped(n) == base_delay * (factor ^ n)
exponential_backoff(n) == Min(max_delay, base_delay * (factor ^ n))

-----------------------------------------------------------------------------
(* Response envelopes handed to parse_api_response.                        *)
(* py       "str" or "dict": the Python type of response_data              *)
(* valid    a str that is valid JSON                                       *)
(* top      the kind of the JSON value of the envelope                     *)
(* has_key  'content' in response_data (key, element or substring)         *)
(* content  the kind of response_data['content']                           *)
(* n_blocks the length of the content list                                 *)
(* block    the kind of response_data['content'][0]                        *)
(* text     the kind of the first block's 'text' ("absent": no such key)   *)
(* chars    the characters of that text                                    *)

Envelope(chars) ==
    [py |-> "str", valid |-> TRUE, top |-> "obj", has_key |-> TRUE,
     content |-> "list", n_blocks |-> 1, block |-> "dict", text |-> "str",
     chars |-> chars]
NoText == Envelope(<<>>)

ContentTypeKey == <<"ContentType">>
KeyCT == <<Quote, "ContentType", Quote>>
KeyTP == <<Quote, "ThoughtProcess", Quote>>
QStr(c) == <<Quote>> \o c \o <<Quote>>
Obj1(v) == <<"{">> \o KeyCT \o <<":", " ">> \o v \o <<"}">>

\* texts a model can answer with: well-formed and ill-formed
Bodies ==
    { Obj1(QStr(<<"Rental_Contract">>)),
      Obj1(QStr(<<"contract_payment">>)),
      <<"{">> \o KeyTP \o <<":">> \o QStr(<<"x">>) \o <<",">> \o KeyCT
              \o <<":">> \o QStr(<<"Contract_Payment">>) \o <<"}">>,
      <<"{">> \o KeyCT \o <<":">> \o QStr(<<"Unclassified">>) \o <<",">> \o KeyCT
              \o <<":">> \o QStr(<<"Repayment_Table">>) \o <<"}">>,
      Obj1(QStr(<<"Mortgage", "DEL", "_Contract">>)),
      Obj1(QStr(<<"NEL">>)),
      Obj1(QStr(<<"Mortgage", "LF", "_Contract">>)),
      Obj1(QStr(<<>>)),
      Obj1(<<"null">>),
      Obj1(<<"1">>),
      Obj1(<<"0">>),
      Obj1(<<"0", "1">>),
      <<"{", "}">>,
      <<"{">> \o KeyTP \o <<":">> \o QStr(<<"x">>) \o <<"}">>,
      <<"[", "]">>,
      <<"[", "1", ",">> \o QStr(<<"x">>) \o <<"]">>,
      QStr(<<"ContentType">>),
      <<"1">>,
      <<"null">>,
      <<>>,
      <<"invalid", " ", "json">>,
      <<"{">> \o KeyCT \o <<":">>,
      <<"{">> \o KeyCT \o <<":">> \o QStr(<<"x">>) \o <<",", "}">> }

NoiseChars == {"BEL", "LF", "DEL", " "}
InsertAt(s, p, c) == SubSeq(s, 1, p) \o <<c>> \o SubSeq(s, p + 1, Len(s))

\* the bodies, and the bodies with one stray character
Texts ==
    Bodies \cup { InsertAt(b, Min(p, Len(b)), c) :
                    b \in Bodies, p \in 0..MaxNoisePos, c \in NoiseChars }

\* envelopes that are not an object holding a list of text blocks
OddEnvelopes ==
    { [NoText EXCEPT !.valid = FALSE] }
    \cup { [NoText EXCEPT !.top = k, !.has_key = FALSE] : k \in {"null", "num"} }
    \cup { [NoText EXCEPT !.top = k, !.has_key = h] :
             k \in {"str", "list"}, h \in BOOLEAN }
    \cup { [NoText EXCEPT !.has_key = FALSE] }
    \cup { [NoText EXCEPT !.content = k] : k \in {"null", "str", "num", "obj"} }
    \cup { [NoText EXCEPT !.n_blocks = 0] }
    \cup { [NoText EXCEPT !.block = k] : k \in {"str", "null", "num", "list"} }
    \cup { [NoText EXCEPT !.text = k] : k \in {"absent", "null", "num"} }

AsDict(e) == [e EXCEPT !.py = "dict"]

\* every response_data of the model: str or dict
Envelopes ==
    LET strs == OddEnvelopes
                \cup { [Envelope(t) EXCEPT !.n_blocks = n] : t \in Texts, n \in 1..2 }
    IN strs \cup { AsDict(e) : e \in { x \in strs : x.valid /\ x.top = "obj" } }

-----------------------------------------------------------------------------
(* parse_api_response *)

\* re.sub(r'[\x00-\x1f\x7f-\x9f]', '', content_text)
clean_text(content_text) ==
    SelectSeq(content_text, LAMBDA c : c \notin ControlChars)

\* the body of the try block: a return, or the exception it raises
parse_try(rd) ==
    LET Missing == Ret(None, Msg("Content field missing or improperly formatted"))
    IN
    IF rd.py = "str" /\ ~rd.valid THEN Raise("JSONDecodeError")
    ELSE CASE rd.top \in {"null", "num"} -> Raise("TypeError")
           [] rd.top \in {"str", "list"} ->
                IF rd.has_key THEN Raise("TypeError") ELSE Missing
           [] OTHER ->
                IF ~rd.has_key \/ rd.content # "list" \/ rd.n_blocks = 0 THEN Missing
                ELSE IF rd.block # "dict" THEN Raise("AttributeError")
                ELSE IF rd.text \in {"null", "num"} THEN Raise("TypeError")
                ELSE LET content_text == IF rd.text = "absent" THEN <<>> ELSE rd.chars
                         content_data == json_loads(clean_text(content_text))
                     IN IF ~content_data.ok THEN Raise("JSONDecodeError")
                        ELSE IF content_data.val.t # "obj" THEN Raise("AttributeError")
                        ELSE Ret(DictGet(content_data.val.m, ContentTypeKey),
                                 Str(json_dumps(content_data.val)))

\* a parser whose handler catches only the JSON decoding error
parse_api_response_narrow(rd) ==
    LET r == parse_try(rd) IN
    IF r.st = "raise" /\ r.b = Msg("JSONDecodeError")
    THEN Ret(None, Str(<<"Failed to parse API response: ">> \o r.b.s))
    ELSE r

\* a parser without its except clause
parse_api_response_raises(rd) == parse_try(rd)

\* a parser that hands back the text it was given, not its re-serialisation
parse_api_response_returns_text(rd) ==
    LET r == parse_try(rd) IN
    IF r.st = "raise"
    THEN Ret(None, Str(<<"Failed to parse API response: ">> \o r.b.s))
    ELSE IF r.a # None /\ rd.text = "str" THEN Ret(r.a, Str(rd.chars))
    ELSE r

parse_api_response(rd) ==
    LET r == parse_try(rd) IN
    IF r.st = "raise"
    THEN Ret(None, Str(<<"Failed to parse API response: ">> \o r.b.s))
    ELSE r

-----------------------------------------------------------------------------
(* process_file_for_api *)

max_pages == 4
default_retry_limit == 5

PoorQuality == Msg("Unclassified - Poor image quality")

\* file name extensions of the input path
Extensions == {".pdf", ".PDF", ".jpg", ".jpeg", ".JPG", ".png", ".Png", ".txt", ""}
\* str.lower() of a symbol
Lower(ext) ==
    CASE ext = ".PDF" -> ".pdf"
      [] ext = ".JPG" -> ".jpg"
      [] ext = ".Png" -> ".png"
      [] ext = "Contract_Payment" -> "contract_payment"
      [] ext = "CONTRACT_PAYMENT" -> "contract_payment"
      [] ext = "Rental_Contract" -> "rental_contract"
      [] ext = "Unclassified" -> "unclassified"
      [] ext = "Invoice" -> "invoice"
      [] ext = "YES" -> "yes"
      [] ext = "Yes" -> "yes"
      [] ext = "Housing_Refund_Request" -> "housing_refund_request"
      [] ext = "Unclassified - Poor image quality" -> "unclassified - poor image quality"
      [] OTHER -> ext

get_media_type(path) ==
    CASE Lower(path) \in {".jpg", ".jpeg"} -> "image/jpeg"
      [] Lower(path) = ".png" -> "image/png"
      [] Lower(path) = ".pdf" -> "application/pdf"
      [] OTHER -> "None"

\* the max_pages argument: None, or a number
NoLimit == <<>>
Limit(k) == <<k>>

\* the one exception a call of convert_pdf_to_images meets, if any: in
\* fitz.open, in os.makedirs, while rendering doc[page] (doc[i], get_pixmap,
\* Image.frombytes), or in img.save of that page's copy
NoFault == [at |-> "none", page |-> 0]
Faults(n) ==
    {NoFault}
    \cup { [at |-> k, page |-> 0] : k \in {"open", "makedirs"} }
    \cup { [at |-> k, page |-> i] : k \in {"render", "save"}, i \in 0..(n - 1) }

\* a conversion that renders every page of the document
num_pages_uncapped(n, limit) == n

\* num_pages = total_pages if max_pages is None else min(total_pages, max_pages)
num_pages(n, limit) == IF limit = NoLimit THEN n ELSE Min(n, limit[1])

\* the image made from doc[i], named by the page it shows: page i + 1
Rendering(i) == i + 1

\* the loop `for i in range(num_pages)` from iteration i on; acc holds the
\* list images, the indices doc was read at, the copies written so far and
\* whether an exception ended the loop
RECURSIVE convert_pages(_, _, _, _)
convert_pages(i, stop, fault, acc) ==
    IF i >= stop THEN acc
    ELSE IF fault = [at |-> "render", page |-> i]
    THEN [acc EXCEPT !.accessed = @ \cup {i}, !.raised = TRUE]
    ELSE IF fault = [at |-> "save", page |-> i]
    THEN [acc EXCEPT !.accessed = @ \cup {i},
                     !.images = Append(@, Rendering(i)),
                     !.raised = TRUE]
    ELSE convert_pages(i + 1, stop, fault,
                       [acc EXCEPT !.accessed = @ \cup {i},
                                   !.images = Append(@, Rendering(i)),
                                   !.staged = @ \cup {i + 1}])

\* convert_pdf_to_images on a document of n pages: ret is the list returned
\* (empty when anything in the try block raised), with what the call did
convert_pdf_to_images(n, limit, fault) ==
    LET start == [images |-> <<>>, accessed |-> {}, staged |-> {}, raised |-> FALSE]
        body == IF fault.at \in {"open", "makedirs"}
                THEN [start EXCEPT !.raised = TRUE]
                ELSE convert_pages(0, num_pages(n, limit), fault, start)
    IN [ret |-> IF body.raised THEN <<>> ELSE body.images,
        rendered |-> body.images,
        accessed |-> body.accessed,
        staged |-> body.staged,
        raised |-> body.raised]

\* values process_file_for_api returns: a list of entries or a str
ProcList(items) == [t |-> "list", s |-> <<>>, items |-> items]
ProcStr(v) == [t |-> "str", s |-> v.s, items |-> <<>>]
NoProc == [t |-> "none", s |-> <<>>, items |-> <<>>]
ProcTruthy(r) == IF r.t = "list" THEN r.items # <<>> ELSE r.s # <<>>

\* one payload entry: the page it shows and its base64 data, None when
\* encode_image_to_base64 failed
ImageEntry(page, encoded) ==
    [page |-> page, data |-> IF encoded THEN "base64" ELSE "None"]

PipeIdle ==
    /\ pc = "idle"
    /\ entry = "none"
    /\ file_path = ""
    /\ total_pages = 0
    /\ images = <<>>
    /\ index = 0
    /\ verdicts = <<>>
    /\ image_data = <<>>
    /\ poor_quality_count = 0
    /\ temp_files = <<>>
    /\ proc_ret = NoProc
    /\ retry_limit = default_retry_limit
    /\ attempt = 0
    /\ calls = 0
    /\ sleeps = <<>>
    /\ outcomes_seen = {}
    /\ api_response = NoText
    /\ comm_ret = NoRet
    /\ result = NoRet

\* the variables of the direct calls, left alone by the pipeline
notPipeVars == <<p_pc, response_data, p_ret, b_pc, retry_number, wait_time,
                 prev_retry_number, prev_wait_time, callVars>>
commVars == <<attempt, calls, sleeps, outcomes_seen, api_response, comm_ret>>
pageVars == <<images, index, verdicts, image_data, poor_quality_count, temp_files>>

\* classify_file called on a path; a PDF has n pages
CallClassifyFile(ext, n) ==
    /\ pc = "idle"
    /\ entry' = "classify_file"
    /\ file_path' = ext
    /\ total_pages' = IF get_media_type(ext) = "application/pdf" THEN n ELSE 0
    /\ pc' = "process"
    /\ UNCHANGED <<pageVars, proc_ret, retry_limit, commVars, result>>
    /\ UNCHANGED notPipeVars

\* a classify_file that does not test for an empty payload
classify_after_process_sends_empty(r) ==
    IF r.t = "str" /\ Str(r.s) = PoorQuality THEN Ret(PoorQuality, None)
    ELSE NoRet

\* what classify_file does with the value of process_file_for_api: return,
\* or go on to communicate_with_api
classify_after_process(r) ==
    IF ~ProcTruthy(r)
    THEN Ret(None, Msg("Failed to process image data or unsupported file type"))
    ELSE IF r.t = "str" /\ Str(r.s) = PoorQuality THEN Ret(PoorQuality, None)
    ELSE NoRet

\* process_file_for_api returns r to classify_file
ProcessReturns(r) ==
    /\ proc_ret' = r
    /\ result' = classify_after_process(r)
    /\ pc' = IF classify_after_process(r) = NoRet THEN "communicate" ELSE "done"

\* an exception leaves process_file_for_api, and classify_file with it
ProcessRaises(cause) ==
    /\ proc_ret' = NoProc
    /\ result' = Raise(cause)
    /\ pc' = "done"

\* the PDF branch up to the loop: render, images[:max_pages]
RenderPdf ==
    /\ pc = "process"
    /\ get_media_type(file_path) = "application/pdf"
    /\ \E fault \in Faults(total_pages) :
         LET converted == convert_pdf_to_images(total_pages, Limit(max_pages), fault).ret
         IN images' = SubSeq(converted, 1, Min(max_pages, Len(converted)))
    /\ image_data' = <<>>
    /\ poor_quality_count' = 0
    /\ index' = 0
    /\ pc' = "pages"
    /\ UNCHANGED <<entry, file_path, total_pages, verdicts, temp_files, proc_ret,
                   retry_limit, commVars, result>>
    /\ UNCHANGED notPipeVars

\* check_focus_measure on an image whose Laplacian has variance v; fm is
\* the whole part of v, and v >= 100 exactly when fm >= 100
check_focus_measure(fm) == IF fm >= 100 THEN "Good" ELSE "Bad"

\* check_histogram_spread on an image whose histogram has the coefficient of
\* variation h; spread is 10 * h rounded up, and h > 0.5 exactly when
\* spread > 5
check_histogram_spread(spread) == IF spread > 5 THEN "Good" ELSE "Bad"

RECURSIVE Sum(_)
Sum(xs) == IF xs = <<>> THEN 0 ELSE xs[1] + Sum(SubSeq(xs, 2, Len(xs)))

\* check_ocr_confidence on an image for which the OCR reports confs, one
\* confidence per box and -1 for a box without text; the average a / b is
\* at least 10 exactly when a >= 10 * b
check_ocr_confidence(confs) ==
    LET kept == SelectSeq(confs, LAMBDA conf : conf # -1) IN
    IF kept # <<>>
    THEN IF Sum(kept) >= 10 * Len(kept) THEN "Good" ELSE "Bad"
    ELSE IF 0 >= 10 THEN "Good" ELSE "Bad"

\* a combination that leaves the OCR verdict out
check_image_quality_ignores_ocr(focus, histogram, ocr_confidence) ==
    IF "Bad" \in {focus, histogram} THEN "Bad" ELSE "Good"

\* check_image_quality from the three verdicts: 'Bad' in results.values()
check_image_quality(focus, histogram, ocr_confidence) ==
    IF "Bad" \in {focus, histogram, ocr_confidence} THEN "Bad" ELSE "Good"

\* what the call check_image_quality(final_image_path) comes to: a verdict,
\* or an exception when the file cannot be read as an image
SubVerdicts == {"Good", "Bad"}
QualityOutcomes ==
    {"raise"} \cup { check_image_quality(f, h, o) :
                        f \in SubVerdicts, h \in SubVerdicts, o \in SubVerdicts }

\* a loop body that appends every page, whatever its verdict
page_entries_keeps_bad(data, quality, page, encoded) ==
    Append(data, ImageEntry(page, encoded))

\* image_data after one page: a page that is not 'Bad' is appended with the
\* value of encode_image_to_base64(image)
page_entries(data, quality, page, encoded) ==
    IF quality = "Bad" THEN data ELSE Append(data, ImageEntry(page, encoded))

\* one iteration of the loop over the rendered pages: save the page as
\* temp_image_{index}.jpeg, assess that file, count it or encode it
PdfPage ==
    /\ pc = "pages"
    /\ index < Len(images)
    /\ \E saved \in BOOLEAN, quality \in QualityOutcomes, encoded \in BOOLEAN :
         IF ~saved
         THEN /\ ProcessRaises("OSError")
              /\ UNCHANGED pageVars
         ELSE /\ temp_files' = [i \in DOMAIN temp_files \cup {index} |->
                                   IF i = index THEN images[index + 1] ELSE temp_files[i]]
              /\ IF quality = "raise"
                 THEN /\ ProcessRaises("cv2.error")
                      /\ UNCHANGED <<images, index, verdicts, image_data,
                                     poor_quality_count>>
                 ELSE /\ verdicts' = Append(verdicts, quality)
                      /\ index' = index + 1
                      /\ poor_quality_count' =
                           IF quality = "Bad" THEN poor_quality_count + 1
                           ELSE poor_quality_count
                      /\ image_data' = page_entries(image_data, quality,
                                                    images[index + 1], encoded)
                      /\ UNCHANGED <<images, proc_ret, result, pc>>
    /\ UNCHANGED <<entry, file_path, total_pages, retry_limit, commVars>>
    /\ UNCHANGED notPipeVars

\* a PDF branch that never reports poor quality
pdf_return_ignores_count(n_images, poor, data) == ProcList(data)

\* the value the PDF branch returns after the loop
pdf_return(n_images, poor, data) ==
    IF poor = n_images THEN ProcStr(PoorQuality) ELSE ProcList(data)

PdfFinish ==
    /\ pc = "pages"
    /\ index = Len(images)
    /\ ProcessReturns(pdf_return(Len(images), poor_quality_count, image_data))
    /\ UNCHANGED <<entry, file_path, total_pages, pageVars, retry_limit, commVars>>
    /\ UNCHANGED notPipeVars

\* the value the image branch returns: everything that raises is caught
image_return(opened, saved, quality, reopened, encoded) ==
    IF ~opened \/ ~saved \/ quality = "raise" THEN ProcList(<<>>)
    ELSE IF quality = "Bad" THEN ProcStr(PoorQuality)
    ELSE IF ~reopened THEN ProcList(<<>>)
    ELSE ProcList(<<ImageEntry(1, encoded)>>)

\* the JPEG / PNG branch
ProcessImage ==
    /\ pc = "process"
    /\ get_media_type(file_path) \in {"image/jpeg", "image/png"}
    /\ \E opened \in BOOLEAN, saved \in BOOLEAN, quality \in QualityOutcomes,
          reopened \in BOOLEAN, encoded \in BOOLEAN :
         LET r == image_return(opened, saved, quality, reopened, encoded) IN
         /\ ProcessReturns(r)
         /\ images' = IF opened THEN <<1>> ELSE <<>>
         /\ verdicts' = IF opened /\ saved /\ quality # "raise"
                        THEN <<quality>> ELSE <<>>
         /\ image_data' = IF r.t = "list" THEN r.items ELSE <<>>
    /\ UNCHANGED <<entry, file_path, total_pages, index, poor_quality_count,
                   temp_files, retry_limit, commVars>>
    /\ UNCHANGED notPipeVars

\* any other extension
ProcessUnsupported ==
    /\ pc = "process"
    /\ get_media_type(file_path) = "None"
    /\ ProcessReturns(ProcList(<<>>))
    /\ UNCHANGED <<entry, file_path, total_pages, pageVars, retry_limit, commVars>>
    /\ UNCHANGED notPipeVars

-----------------------------------------------------------------------------
(* communicate_with_api, handle_api_error and the end of classify_file *)

\* exceptions of the client library that derive from APIError
APIErrorKinds == {"RateLimitError", "InternalServerError", "AuthenticationError"}
\* any other exception
OtherErrorKinds == {"TypeError"}

\* except (RateLimitError, APIError)
is_api_error(kind) == kind \in APIErrorKinds

\* a handler that sleeps base_delay seconds after every attempt
handle_api_error_fixed_wait(n, limit) ==
    [wait |-> base_delay, retry |-> ~(n >= 4)]
\* a handler that reports the last attempt one attempt late
handle_api_error_stops_late(n, limit) ==
    [wait |-> exponential_backoff(n), retry |-> ~(n >= 5)]
\* a handler that never reports the last attempt
handle_api_error_no_stop(n, limit) ==
    [wait |-> exponential_backoff(n), retry |-> TRUE]
\* handle_api_error(e, attempt): the time slept, and whether to go on
handle_api_error(n, limit) ==
    [wait |-> exponential_backoff(n), retry |-> ~(n >= 4)]

\* responses of the service: what response.model_dump_json() can hold
Responses ==
    { Envelope(t) : t \in Bodies }
    \cup { [NoText EXCEPT !.n_blocks = 0], [NoText EXCEPT !.text = "absent"] }

\* the end of classify_file: unpack the pair and choose what to return
classify_after_communicate(r) ==
    IF r.st = "return_none" THEN Raise("TypeError")
    ELSE IF r.st = "raise" THEN r
    ELSE IF Truthy(r.a) THEN Ret(r.a, r.b)
    ELSE Ret(None, Msg("API communication failed or no valid response"))

\* communicate_with_api called directly with a payload and a retry limit
CallCommunicate(limit) ==
    /\ pc = "idle"
    /\ entry' = "communicate_with_api"
    /\ image_data' = <<ImageEntry(1, TRUE)>>
    /\ retry_limit' = limit
    /\ pc' = "communicate"
    /\ UNCHANGED <<file_path, total_pages, images, index, verdicts,
                   poor_quality_count, temp_files, proc_ret, commVars, result>>
    /\ UNCHANGED notPipeVars

\* communicate_with_api returns r (or ends without a return) to its caller
CommunicateReturns(r) ==
    /\ comm_ret' = r
    /\ result' = IF entry = "classify_file" THEN classify_after_communicate(r) ELSE r
    /\ pc' = "done"

\* an attempt whose remote call returns a response
RemoteResponse(env) ==
    /\ pc = "communicate"
    /\ attempt < retry_limit
    /\ calls' = calls + 1
    /\ api_response' = env
    /\ outcomes_seen' = outcomes_seen \cup {"response"}
    /\ CommunicateReturns(parse_api_response(env))
    /\ UNCHANGED <<entry, file_path, total_pages, pageVars, proc_ret, retry_limit,
                   attempt, sleeps>>
    /\ UNCHANGED notPipeVars

\* an attempt whose remote call raises an exception caught by
\* except (RateLimitError, APIError)
RemoteAPIError(kind) ==
    /\ pc = "communicate"
    /\ attempt < retry_limit
    /\ is_api_error(kind)
    /\ calls' = calls + 1
    /\ outcomes_seen' = outcomes_seen \cup {kind}
    /\ LET h == handle_api_error(attempt, retry_limit) IN
       /\ sleeps' = Append(sleeps, h.wait)
       /\ IF ~h.retry
          THEN /\ CommunicateReturns(
                    Ret(None, Msg("API communication failed after maximum retries")))
               /\ UNCHANGED attempt
          ELSE /\ attempt' = attempt + 1
               /\ IF attempt + 1 < retry_limit
                  THEN UNCHANGED <<comm_ret, result, pc>>
                  ELSE CommunicateReturns(RetNone)
    /\ UNCHANGED <<entry, file_path, total_pages, pageVars, proc_ret, retry_limit,
                   api_response>>
    /\ UNCHANGED notPipeVars

\* an attempt whose remote call raises any other exception
RemoteOtherError(kind) ==
    /\ pc = "communicate"
    /\ attempt < retry_limit
    /\ ~is_api_error(kind)
    /\ calls' = calls + 1
    /\ outcomes_seen' = outcomes_seen \cup {kind}
    /\ CommunicateReturns(Ret(None, Msg("Unexpected error in API communication")))
    /\ UNCHANGED <<entry, file_path, total_pages, pageVars, proc_ret, retry_limit,
                   attempt, sleeps, api_response>>
    /\ UNCHANGED notPipeVars

-----------------------------------------------------------------------------
(* Direct calls of parse_api_response and exponential_backoff *)

ParseIdle ==
    /\ p_pc = "idle"
    /\ response_data = NoText
    /\ p_ret = NoRet

BackoffIdle ==
    /\ b_pc = "idle"
    /\ retry_number = 0
    /\ wait_time = 0
    /\ prev_retry_number = 0
    /\ prev_wait_time = 0

ParseCall ==
    /\ p_pc = "call"
    /\ p_ret' = parse_api_response(response_data)
    /\ p_pc' = "done"
    /\ UNCHANGED <<response_data, pipeVars, backoffVars, callVars>>

\* exponential_backoff(n), remembering the call before it
BackoffCall(n) ==
    /\ retry_number' = n
    /\ wait_time' = exponential_backoff(n)
    /\ prev_retry_number' = retry_number
    /\ prev_wait_time' = wait_time
    /\ b_pc' = IF b_pc = "idle" THEN "once" ELSE "many"
    /\ UNCHANGED <<pipeVars, parseVars, callVars>>

ConvertIdle ==
    /\ c_pc = "idle"
    /\ c_total_pages = 0
    /\ c_max_pages = NoLimit
    /\ c_fault = NoFault
    /\ c_out = convert_pdf_to_images(0, NoLimit, NoFault)

QualityIdle ==
    /\ q_pc = "idle"
    /\ focus_measure = 0
    /\ hist_spread = 0
    /\ confidences = <<>>
    /\ results = [focus |-> "none", histogram |-> "none", ocr_confidence |-> "none"]
    /\ q_ret = "none"

-----------------------------------------------------------------------------
(* Two callers of classify_file at the same time, each on its own document. *)
(* Both use save_directory = "data/saved_images"; a step of a caller is one *)
(* statement of process_file_for_api that reads or writes a file there, and *)
(* no step fails.                                                          *)

Callers == {"A", "B"}

\* the verdicts check_image_quality gives on the pages of a document
VerdictLists == UNION { [1..n -> SubVerdicts] : n \in 1..MaxWorkerPages }

\* a document: a PDF and the verdict of each rendered page, or an image
\* file, its base name and its verdict
Docs ==
    { [kind |-> "pdf", base |-> "doc.pdf", pages |-> v] : v \in VerdictLists }
    \cup { [kind |-> "image", base |-> b, pages |-> <<q>>] :
              b \in {"scan.jpg", "id.png"}, q \in SubVerdicts }

\* the picture of page `page` of the document of caller c
Picture(c, page) == [doc |-> c, page |-> page]
NoPicture == [doc |-> "none", page |-> 0]

\* os.path.join(save_directory, f"temp_image_{index}.jpeg") for a page of a
\* PDF, os.path.join(save_directory, os.path.basename(file_path)) for an image
final_image_path(doc, i) ==
    IF doc.kind = "pdf" THEN [name |-> "temp_image", index |-> i]
    ELSE [name |-> doc.base, index |-> 0]

Paths == { final_image_path(d, i) : d \in Docs, i \in 0..(MaxWorkerPages - 1) }

WorkersIdle ==
    /\ w_doc = [c \in Callers |-> [kind |-> "pdf", base |-> "doc.pdf",
                                   pages |-> <<"Good">>]]
    /\ w_pc = [c \in Callers |-> "idle"]
    /\ w_index = [c \in Callers |-> 0]
    /\ w_disk = [f \in Paths |-> NoPicture]
    /\ w_assessed = [c \in Callers |-> <<>>]
    /\ w_verdicts = [c \in Callers |-> <<>>]
    /\ w_poor = [c \in Callers |-> 0]
    /\ w_data = [c \in Callers |-> <<>>]
    /\ w_ret = [c \in Callers |-> NoProc]

\* the position of a PDF caller after the page at w_index
after_page(c) ==
    IF w_index[c] + 1 < Len(w_doc[c].pages) THEN "save" ELSE "finish"

\* save_image_as_jpeg(image, final_image_path): the page, or the opened
\* image file, is written to the path
WorkerSave(c) ==
    /\ w_pc[c] = "save"
    /\ w_disk' = [w_disk EXCEPT ![final_image_path(w_doc[c], w_index[c])] =
                                  Picture(c, w_index[c] + 1)]
    /\ w_pc' = [w_pc EXCEPT ![c] = "assess"]
    /\ UNCHANGED <<w_doc, w_index, w_assessed, w_verdicts, w_poor, w_data, w_ret>>
    /\ UNCHANGED notWorkerVars

\* quality = check_image_quality(final_image_path): the verdict of the
\* picture the file holds when it is read
WorkerAssess(c) ==
    /\ w_pc[c] = "assess"
    /\ LET seen == w_disk[final_image_path(w_doc[c], w_index[c])]
           quality == w_doc[seen.doc].pages[seen.page]
       IN /\ w_assessed' = [w_assessed EXCEPT ![c] = Append(@, seen)]
          /\ w_verdicts' = [w_verdicts EXCEPT ![c] = Append(@, quality)]
          /\ IF quality # "Bad"
             THEN /\ w_pc' = [w_pc EXCEPT ![c] = "encode"]
                  /\ UNCHANGED <<w_index, w_poor, w_ret>>
             ELSE IF w_doc[c].kind = "pdf"
             THEN /\ w_poor' = [w_poor EXCEPT ![c] = @ + 1]
                  /\ w_index' = [w_index EXCEPT ![c] = @ + 1]
                  /\ w_pc' = [w_pc EXCEPT ![c] = after_page(c)]
                  /\ UNCHANGED w_ret
             ELSE /\ w_ret' = [w_ret EXCEPT ![c] = ProcStr(PoorQuality)]
                  /\ w_pc' = [w_pc EXCEPT ![c] = "done"]
                  /\ UNCHANGED <<w_index, w_poor>>
    /\ UNCHANGED <<w_doc, w_disk, w_data>>
    /\ UNCHANGED notWorkerVars

\* the entry of a page that is not 'Bad': a PDF page is encoded from the
\* image in memory, an image file from the file read again
WorkerEncode(c) ==
    /\ w_pc[c] = "encode"
    /\ IF w_doc[c].kind = "pdf"
       THEN /\ w_data' = [w_data EXCEPT ![c] =
                            page_entries(@, w_verdicts[c][w_index[c] + 1],
                                         Picture(c, w_index[c] + 1), TRUE)]
            /\ w_index' = [w_index EXCEPT ![c] = @ + 1]
            /\ w_pc' = [w_pc EXCEPT ![c] = after_page(c)]
            /\ UNCHANGED w_ret
       ELSE LET saved_img == w_disk[final_image_path(w_doc[c], w_index[c])] IN
            /\ w_data' = [w_data EXCEPT ![c] = <<ImageEntry(saved_img, TRUE)>>]
            /\ w_ret' = [w_ret EXCEPT ![c] = ProcList(<<ImageEntry(saved_img, TRUE)>>)]
            /\ w_pc' = [w_pc EXCEPT ![c] = "done"]
            /\ UNCHANGED w_index
    /\ UNCHANGED <<w_doc, w_disk, w_assessed, w_verdicts, w_poor>>
    /\ UNCHANGED notWorkerVars

\* the end of the PDF branch
WorkerFinish(c) ==
    /\ w_pc[c] = "finish"
    /\ w_ret' = [w_ret EXCEPT ![c] =
                   pdf_return(Len(w_doc[c].pages), w_poor[c], w_data[c])]
    /\ w_pc' = [w_pc EXCEPT ![c] = "done"]
    /\ UNCHANGED <<w_doc, w_index, w_disk, w_assessed, w_verdicts, w_poor, w_data>>
    /\ UNCHANGED notWorkerVars

-----------------------------------------------------------------------------
(* process_files, rename_file and update_file_status of src/src/main.py.   *)
(* The files of one call lie in one directory; a file name is its base, the *)
(* number n of a " (n)" suffix (0: no suffix) and its extension.  The log   *)
(* file is writable.                                                       *)

FileName(base, n, ext) == [base |-> base, n |-> n, ext |-> ext]
NoName == FileName(<<>>, 0, "")

lower(chars) == [i \in 1..Len(chars) |-> Lower(chars[i])]

allowed_extensions == {".png", ".jpg", ".jpeg", ".pdf"}
valid_classifications ==
    { <<"rental_contract">>, <<"mortgage_contract">>, <<"contract_payment">>,
      <<"teleworking_agreement">>, <<"repayment_table">>, <<"unclassified">> }
\* ["Housing_Refund_Request.pdf", "Housing_Refund_Modification.pdf"]
Protected ==
    { FileName(<<"Housing_Refund_Request">>, 0, ".pdf"),
      FileName(<<"Housing_Refund_Modification">>, 0, ".pdf") }

\* the test without .lower() on the file name
already_classified_exact(name) ==
    \E classification \in valid_classifications : name.base = classification

\* any(classification in file_name.lower() ...): of the sample names, those
\* whose base is a classification hold one, with or without a suffix
already_classified(name) ==
    \E classification \in valid_classifications : lower(name.base) = classification

\* the reason a file is skipped before classification, "none" if it is not
skip_reason(name) ==
    IF already_classified(name) THEN "Already classified"
    ELSE IF name \in Protected THEN "Not allowed to change"
    ELSE IF Lower(name.ext) \notin allowed_extensions THEN "Unsupported file type"
    ELSE "none"

skipped_status(reason) ==
    CASE reason = "Already classified" -> "Skipped - Already classified"
      [] reason = "Not allowed to change" -> "Skipped - Not allowed to change"
      [] OTHER -> "Skipped - Unsupported file type"

\* the while loop of rename_file: the first of "<c><ext>", "<c> (1)<ext>",
\* "<c> (2)<ext>", ... that does not exist
RECURSIVE new_path(_, _, _, _)
new_path(classification, ext, existing, counter) ==
    IF FileName(classification, counter, ext) \notin existing
    THEN FileName(classification, counter, ext)
    ELSE new_path(classification, ext, existing, counter + 1)

\* rename_file(original_path, classification) of main.py: the path returned
\* and the directory afterwards; os.rename succeeds or raises OSError
main_rename_file(original, classification, existing, renamed) ==
    LET target == new_path(classification, original.ext, existing, 0) IN
    IF renamed
    THEN [path |-> target, directory |-> (existing \ {original}) \cup {target}]
    ELSE [path |-> original, directory |-> existing]

\* the line update_file_status writes for a file
StatusLine(name, status, new_filename) ==
    [file |-> name, status |-> status,
     new_filename |-> IF new_filename # NoName /\ status = "Completed"
                      THEN new_filename ELSE NoName]

\* one file of the loop, given what classify_file does for it (outcome) and
\* whether os.rename succeeds: the log line written, the directory
\* afterwards, the classification used and whether an exception escapes
process_file(name, outcome, existing, renamed) ==
    LET quiet == [file |-> name, line |-> StatusLine(name, "none", NoName),
                  directory |-> existing, outcome |-> NoRet,
                  classification |-> None, raised |-> FALSE]
        called == [quiet EXCEPT !.outcome = outcome]
        complete(classification) ==
            LET r == main_rename_file(name, classification.s, existing, renamed) IN
            [called EXCEPT !.line = StatusLine(name, "Completed", r.path),
                           !.directory = r.directory,
                           !.classification = classification]
        invalid ==
            [called EXCEPT !.line = StatusLine(name,
                                       "Skipped - Invalid or no classification", NoName),
                           !.classification = outcome.a]
    IN
    IF skip_reason(name) # "none"
    THEN [quiet EXCEPT !.line = StatusLine(name, skipped_status(skip_reason(name)),
                                           NoName)]
    ELSE IF outcome.st = "raise" THEN [called EXCEPT !.raised = TRUE]
    ELSE IF outcome.a = PoorQuality /\ outcome.b = None
    THEN complete(Str(<<"Unclassified">>))
    ELSE IF outcome.a = None THEN invalid
    \* classification.lower() on a value that is not a str: AttributeError
    ELSE IF outcome.a.t # "str"
    THEN [called EXCEPT !.classification = outcome.a, !.raised = TRUE]
    ELSE IF lower(outcome.a.s) \notin valid_classifications THEN invalid
    ELSE complete(outcome.a)

\* labels a response can carry in ContentType
Labels == {"Contract_Payment", "contract_payment", "CONTRACT_PAYMENT",
           "Rental_Contract", "Unclassified", "Invoice"}

\* what classify_file(file_path) can do: return a label with the response,
\* a label that is not a str, one of its failures, or raise
ClassifyOutcomes ==
    { Ret(Str(<<l>>), Str(Obj1(QStr(<<l>>)))) : l \in Labels }
    \cup { Ret(Num(<<"1">>), Str(Obj1(<<"1">>))) }
    \cup { classify_after_process(ProcList(<<>>)),
           classify_after_process(ProcStr(PoorQuality)),
           classify_after_communicate(Ret(None, Msg("Unexpected error in API communication"))),
           Raise("OSError") }

\* names of the files of a deal folder
FileNames ==
    { FileName(<<"scan">>, 0, ".pdf"),
      FileName(<<"photo">>, 0, ".JPG"),
      FileName(<<"notes">>, 0, ".txt"),
      FileName(<<"Housing_Refund_Request">>, 0, ".pdf"),
      FileName(<<"Contract_Payment">>, 0, ".pdf") }

FilesIdle ==
    /\ f_pc = "idle"
    /\ files = <<>>
    /\ directory = {}
    /\ f_next = 1
    /\ status_log = <<>>
    /\ history = <<>>

\* one iteration of `for file_path in files`
ProcessFile(outcome, renamed) ==
    /\ f_pc \in {"loop", "loop again"}
    /\ f_next <= Len(files)
    /\ LET done == process_file(files[f_next], outcome, directory, renamed) IN
       /\ directory' = done.directory
       /\ status_log' = IF done.line.status = "none" THEN status_log
                        ELSE Append(status_log, done.line)
       /\ history' = Append(history, done)
       /\ f_next' = IF done.raised THEN f_next ELSE f_next + 1
       /\ f_pc' = IF done.raised THEN "raised" ELSE f_pc
    /\ UNCHANGED files
    /\ UNCHANGED notFilesVars

\* the list is exhausted
ProcessFilesReturns ==
    /\ f_pc \in {"loop", "loop again"}
    /\ f_next > Len(files)
    /\ f_pc' = IF f_pc = "loop" THEN "done" ELSE "done again"
    /\ UNCHANGED <<files, directory, f_next, status_log, history>>
    /\ UNCHANGED notFilesVars

\* the iterations that renamed their file
WasRenamed(h) ==
    h.line.status = "Completed" /\ h.line.new_filename # h.file
\* the new paths of the files renamed so far, in the order of the renames
RenamedPaths ==
    LET renames == SelectSeq(history, WasRenamed) IN
    [i \in 1..Len(renames) |-> renames[i].line.new_filename]

\* a later call of process_files, on the new paths of the renamed files
ProcessFilesAgain ==
    /\ f_pc = "done"
    /\ RenamedPaths # <<>>
    /\ files' = RenamedPaths
    /\ f_next' = 1
    /\ f_pc' = "loop again"
    /\ UNCHANGED <<directory, status_log, history>>
    /\ UNCHANGED notFilesVars

-----------------------------------------------------------------------------
(* encode_image_to_base64 and save_image_as_jpeg on an image of a given    *)
(* colour mode                                                             *)

\* modes of the images PIL opens: bilevel, grayscale, grayscale with alpha,
\* palette, RGB, RGB with alpha, CMYK
Modes == {"1", "L", "LA", "P", "RGB", "RGBA", "CMYK"}

\* the modes image.save(..., format='JPEG') writes; for any other mode it
\* raises OSError ("cannot write mode P as JPEG")
JpegModes == {"1", "L", "RGB", "RGBX", "CMYK", "YCbCr"}

\* if image.mode == 'RGBA': image = image.convert('RGB')
rgba_to_rgb(mode) == IF mode = "RGBA" THEN "RGB" ELSE mode

\* encode_image_to_base64(image): the mode of the image handed to
\* image.save, and the value returned (None when the save raised)
encode_image_to_base64(mode) ==
    LET saved == rgba_to_rgb(mode) IN
    [mode_at_save |-> saved,
     ret |-> IF saved \in JpegModes THEN "base64" ELSE "None",
     raised |-> FALSE]

\* save_image_as_jpeg(image, file_path): the same without the try block
save_image_as_jpeg(mode) ==
    LET saved == rgba_to_rgb(mode) IN
    [mode_at_save |-> saved,
     ret |-> "None",
     raised |-> saved \notin JpegModes]

JpegFunctions == {"encode_image_to_base64", "save_image_as_jpeg"}

JpegIdle ==
    /\ j_pc = "idle"
    /\ j_function = "none"
    /\ j_mode = "none"
    /\ j_out = [mode_at_save |-> "none", ret |-> "None", raised |-> FALSE]
    /\ prev_function = "none"
    /\ prev_mode = "none"

\* one of the two functions on an image of the given mode, remembering the
\* call before it
JpegCall(function, mode) ==
    /\ j_function' = function
    /\ j_mode' = mode
    /\ j_out' = IF function = "encode_image_to_base64"
                THEN encode_image_to_base64(mode)
                ELSE save_image_as_jpeg(mode)
    /\ prev_function' = j_function
    /\ prev_mode' = j_mode
    /\ j_pc' = "done"
    /\ UNCHANGED notJpegVars

-----------------------------------------------------------------------------
(* rename_file of src/src/file_utils.py.  A path is the name of a file in   *)
(* one directory, a sequence of pieces: a run of characters without a dot,  *)
(* an extension (".pdf") or a counter " (k)".  A file is its name and its   *)
(* data; the data of a file is named after the file that first held it.     *)

Text(s) == [s |-> s, k |-> 0]
\* f" ({counter})"
Counter(k) == [s |-> " ()", k |-> k]
IsDotted(piece) == piece.k = 0 /\ piece.s \in {".pdf", ".txt"}

\* os.path.splitext: the extension starts at the last dot, unless nothing
\* but dots precedes it
splitext(path) ==
    LET dots == { i \in 2..Len(path) : IsDotted(path[i]) } IN
    IF dots = {} THEN <<path, <<>>>>
    ELSE LET i == CHOOSE i \in dots : \A j \in dots : j <= i IN
         <<SubSeq(path, 1, i - 1), SubSeq(path, i, Len(path))>>

File(name, data) == [name |-> name, data |-> data]
\* os.path.exists
exists(path, disk) == \E f \in disk : f.name = path

\* the while loop of rename_file entered with new_path and counter
RECURSIVE duplicate_loop(_, _, _, _, _)
duplicate_loop(new_base_name, extension, disk, path, counter) ==
    IF exists(path, disk)
    THEN duplicate_loop(new_base_name, extension, disk,
                        new_base_name \o <<Counter(counter)>> \o extension,
                        counter + 1)
    ELSE path

Platforms == {"posix", "nt"}

\* os.rename(src, dst): the exception raised ("none": it returns) and the
\* files afterwards.  fault is an exception the call meets for a reason
\* outside the directory listing.  Onto an existing dst POSIX replaces dst
\* silently and Windows raises FileExistsError.
os_rename(src, dst, disk, fault, platform) ==
    LET moved == { f \in disk : f.name \notin {src, dst} }
                 \cup { File(dst, f.data) : f \in { g \in disk : g.name = src } }
    IN
    IF fault # "none" THEN [raised |-> fault, disk |-> disk]
    ELSE IF ~exists(src, disk) THEN [raised |-> "FileNotFoundError", disk |-> disk]
    ELSE IF src = dst THEN [raised |-> "none", disk |-> disk]
    ELSE IF exists(dst, disk) /\ platform = "nt"
    THEN [raised |-> "FileExistsError", disk |-> disk]
    ELSE [raised |-> "none", disk |-> moved]

OSErrors == {"PermissionError", "FileNotFoundError", "FileExistsError"}

NoMessage == [prefix |-> "", path |-> <<>>, cause |-> ""]
NotCalled == [st |-> "none", success |-> FALSE, path |-> <<>>,
              message |-> NoMessage]
\* return True, new_path
Renamed(path) == [NotCalled EXCEPT !.st = "return", !.success = TRUE,
                                   !.path = path]
\* return False, f"{prefix} {original_path}: {str(e)}"
NotRenamed(prefix, original_path, cause) ==
    [NotCalled EXCEPT !.st = "return",
                      !.message = [prefix |-> prefix, path |-> original_path,
                                   cause |-> cause]]
\* the exception leaves rename_file
Escaped(cause) ==
    [NotCalled EXCEPT !.st = "raise", !.message.cause = cause]

\* rename_file with the first except clause only
rename_except_oserror_only(original_path, cause) ==
    IF cause \in OSErrors
    THEN NotRenamed("Error renaming file", original_path, cause)
    ELSE Escaped(cause)
\* the two except clauses of rename_file
rename_except(original_path, cause) ==
    IF cause \in OSErrors
    THEN NotRenamed("Error renaming file", original_path, cause)
    ELSE NotRenamed("Unexpected error renaming", original_path, cause)

\* os.rename(original_path, path) and what rename_file returns after it
rename_and_return(original_path, path, disk, fault, platform) ==
    LET moved == os_rename(original_path, path, disk, fault, platform) IN
    IF moved.raised = "none"
    THEN [ret |-> Renamed(path), disk |-> moved.disk]
    ELSE [ret |-> rename_except(original_path, moved.raised), disk |-> moved.disk]

\* rename_file without the existence loop
rename_file_first_name(original_path, new_name, disk, fault, platform) ==
    rename_and_return(original_path, new_name \o splitext(original_path)[2],
                      disk, fault, platform)

\* rename_file(original_path, new_name): what it returns and the files
\* afterwards
rename_file(original_path, new_name, disk, fault, platform) ==
    LET extension == splitext(original_path)[2]
        new_base_name == new_name
        free_path == duplicate_loop(new_base_name, extension, disk,
                                    new_base_name \o extension, 1)
    IN
    rename_and_return(original_path, free_path, disk, fault, platform)

\* the names a directory holds before a call: the name given and its copies
Original == <<Text("original"), Text(".pdf")>>
Target == <<Text("target"), Text(".pdf")>>
Copy(k) == <<Text("target"), Counter(k), Text(".pdf")>>
FullNameTarget == <<Text("target"), Text(".pdf"), Text(".pdf")>>
Missing == <<Text("missing"), Text(".pdf")>>
DiskNames == {Original, Target, FullNameTarget} \cup { Copy(k) : k \in 1..MaxCopies }
Disks == { { File(name, name) : name \in names } : names \in SUBSET DiskNames }
Originals == {Original, Target, Missing}
\* new_name as a base ("target") and as a complete file name ("target.pdf")
NewNames == { <<Text("target")>>, <<Text("target"), Text(".pdf")>>,
              <<Text("original")>> }
RenameFaults == {"none", "PermissionError", "TypeError"}

RenameIdle ==
    /\ os_name = "unset"
    /\ r_pc = "idle"
    /\ r_disk = {}
    /\ r_before = {}
    /\ r_original = <<>>
    /\ r_new_name = <<>>
    /\ r_fault = "none"
    /\ r_ret = NotCalled

\* rename_file(original_path, new_name) in a directory
RenameCall(original_path, new_name, fault) ==
    /\ r_pc = "call"
    /\ LET out == rename_file(original_path, new_name, r_disk, fault, os_name) IN
       /\ r_ret' = out.ret
       /\ r_disk' = out.disk
    /\ r_before' = r_disk
    /\ r_original' = original_path
    /\ r_new_name' = new_name
    /\ r_fault' = fault
    /\ r_pc' = "done"
    /\ UNCHANGED <<os_name, notRenameVars>>

\* Two callers of rename_file at the same time, on different files of one
\* directory and with the same new_name.  A step of a caller is one call of
\* os.path.exists or of os.rename.
Renamers == {1, 2}
Sources == <<<<Text("first"), Text(".pdf")>>, <<Text("second"), Text(".pdf")>>>>
RaceDisks ==
    { { File(name, name) : name \in names \cup {Sources[1], Sources[2]} } :
        names \in SUBSET ({Target} \cup { Copy(k) : k \in 1..MaxCopies }) }

RaceIdle ==
    /\ k_pc = [c \in Renamers |-> "idle"]
    /\ k_disk = {}
    /\ k_original = [c \in Renamers |-> <<>>]
    /\ k_new_name = <<>>
    /\ k_new_path = [c \in Renamers |-> <<>>]
    /\ k_counter = [c \in Renamers |-> 0]
    /\ k_ret = [c \in Renamers |-> NotCalled]

\* while os.path.exists(new_path): one test of the condition and, when it
\* holds, the body
RaceExists(c) ==
    /\ k_pc[c] = "exists"
    /\ IF exists(k_new_path[c], k_disk)
       THEN /\ k_new_path' = [k_new_path EXCEPT ![c] =
                   k_new_name \o <<Counter(k_counter[c])>>
                              \o splitext(k_original[c])[2]]
            /\ k_counter' = [k_counter EXCEPT ![c] = @ + 1]
            /\ UNCHANGED k_pc
       ELSE /\ k_pc' = [k_pc EXCEPT ![c] = "rename"]
            /\ UNCHANGED <<k_new_path, k_counter>>
    /\ UNCHANGED <<k_disk, k_original, k_new_name, k_ret, notRaceVars>>

\* os.rename(original_path, new_path) and the return
RaceRename(c) ==
    /\ k_pc[c] = "rename"
    /\ LET out == rename_and_return(k_original[c], k_new_path[c], k_disk,
                                    "none", os_name) IN
       /\ k_ret' = [k_ret EXCEPT ![c] = out.ret]
       /\ k_disk' = out.disk
    /\ k_pc' = [k_pc EXCEPT ![c] = "done"]
    /\ UNCHANGED <<k_original, k_new_name, k_new_path, k_counter, notRaceVars>>

-----------------------------------------------------------------------------
(* validate_new_filename of src/src/file_utils.py.  The argument is None, a  *)
(* str or a value that is neither (a number); a str is a sequence of runs,   *)
(* a run being n >= 1 times the same character.                              *)

Run(ch, n) == [ch |-> ch, n |-> n]
NoneValue == [t |-> "none", runs |-> <<>>]
StrValue(runs) == [t |-> "str", runs |-> runs]
\* a non-zero int
IntValue == [t |-> "int", runs |-> <<>>]

RECURSIVE len(_)
len(runs) == IF runs = <<>> THEN 0 ELSE Head(runs).n + len(Tail(runs))

\* str.strip() of the value is the empty str
strips_to_empty(runs) == \A i \in 1..Len(runs) : runs[i].ch = " "
\* char in filename
contains(runs, char) == \E i \in 1..Len(runs) : runs[i].ch = char

invalid_chars == {"<", ">", ":", "\"", "/", "\\", "|", "?", "*"}
max_filename_length == 255

NotValidated == [st |-> "none", valid |-> FALSE, message |-> ""]
\* return valid, message
Validated(valid, message) == [st |-> "return", valid |-> valid, message |-> message]

\* validate_new_filename with the length test off by one
validate_new_filename_shorter(value) ==
    IF value.t = "none" THEN Validated(FALSE, "Filename cannot be empty")
    ELSE IF value.t # "str" THEN Validated(FALSE, "Error validating filename")
    ELSE IF value.runs = <<>> \/ strips_to_empty(value.runs)
    THEN Validated(FALSE, "Filename cannot be empty")
    ELSE IF len(value.runs) >= max_filename_length
    THEN Validated(FALSE, "Filename is too long")
    ELSE IF \E char \in invalid_chars : contains(value.runs, char)
    THEN Validated(FALSE, "Filename contains invalid characters")
    ELSE IF ~contains(value.runs, ".")
    THEN Validated(FALSE, "Filename must have an extension")
    ELSE Validated(TRUE, "")

\* validate_new_filename(filename); filename.strip() raises AttributeError
\* on a non-zero int, which the except clause turns into a return
validate_new_filename(value) ==
    IF value.t = "none" THEN Validated(FALSE, "Filename cannot be empty")
    ELSE IF value.t # "str" THEN Validated(FALSE, "Error validating filename")
    ELSE IF value.runs = <<>> \/ strips_to_empty(value.runs)
    THEN Validated(FALSE, "Filename cannot be empty")
    ELSE IF len(value.runs) > max_filename_length
    THEN Validated(FALSE, "Filename is too long")
    ELSE IF \E char \in invalid_chars : contains(value.runs, char)
    THEN Validated(FALSE, "Filename contains invalid characters")
    ELSE IF ~contains(value.runs, ".")
    THEN Validated(FALSE, "Filename must have an extension")
    ELSE Validated(TRUE, "")

\* the characters and run lengths of the values tried
NameChars == {"x", " ", ".", "<", "*"}
RunLengths == {1, 2, 253, 254, 255, 256}
NameRuns == { Run(ch, n) : ch \in NameChars, n \in RunLengths }
Filenames ==
    {NoneValue, IntValue}
    \cup { StrValue(runs) : runs \in UNION { [1..n -> NameRuns] : n \in 0..MaxRuns } }

ValidateIdle ==
    /\ v_pc = "idle"
    /\ filename = NoneValue
    /\ v_ret = NotValidated

ValidateCall ==
    /\ v_pc = "call"
    /\ v_ret' = validate_new_filename(filename)
    /\ v_pc' = "done"
    /\ UNCHANGED <<filename, notValidateVars>>

-----------------------------------------------------------------------------
(* find_file_path of src/src/file_utils.py.  The search command is outside  *)
(* the program: an attempt raises, or returns an exit code and its output,  *)
(* a list of lines; a "RESULT:" line carries NOT_FOUND or a path that       *)
(* exists or does not exist when os.path.exists tests it.                   *)

Line(kind, path, present) == [kind |-> kind, path |-> path, present |-> present]
OtherLine == Line("text", "", FALSE)
NotFoundLine == Line("RESULT", "NOT_FOUND", FALSE)
FoundLine == Line("RESULT", "Z:/Deals/test_deal/test.pdf", TRUE)
StaleLine == Line("RESULT", "Z:/Deals/test_deal/moved.pdf", FALSE)
Lines == {OtherLine, NotFoundLine, FoundLine, StaleLine}

\* subprocess.run raises (TimeoutExpired, OSError, ...)
RunRaises == [raises |-> TRUE, returncode |-> 0, stdout |-> <<>>]
\* subprocess.run returns a CompletedProcess
CompletedProcess(returncode, stdout) ==
    [raises |-> FALSE, returncode |-> returncode, stdout |-> stdout]

NoSearchRet == [st |-> "none", path |-> ""]
\* return None
ReturnNone == [st |-> "return", path |-> ""]
\* return path
ReturnPath(path) == [st |-> "return", path |-> path]

\* the loop over result.stdout.splitlines(): the path returned, "" if the
\* loop ends or breaks without a return
RECURSIVE scan(_)
scan(stdout) ==
    IF stdout = <<>> THEN ""
    ELSE LET line == Head(stdout) IN
         IF line.kind = "RESULT" /\ line.path = "NOT_FOUND" THEN ""
         ELSE IF line.kind = "RESULT" /\ line.present THEN line.path
         ELSE scan(Tail(stdout))

\* range(n) with one more element
range_inclusive(n) == 0..n

\* range(n)
range(n) == 0..(n - 1)

\* initial_delay: int = 10
default_initial_delay == 10

\* attempt < max_retries - 1
has_retry(n, limit) == n < limit - 1

\* the same delay after every attempt
retry_delay_constant(delay, n) == delay

\* initial_delay * (attempt + 1)
retry_delay(delay, n) == delay * (n + 1)

\* the time.sleep calls made so far, with the one after attempt n
slept(log, delay, n, limit) ==
    IF has_retry(n, limit) THEN Append(log, retry_delay(delay, n)) ELSE log

\* the outputs tried: nothing, each line alone, the output of the script
\* when it finds the file, and two RESULT lines in every order that matters
Stdouts ==
    { <<>> } \cup { <<line>> : line \in Lines }
    \cup { <<OtherLine, FoundLine, OtherLine>>, <<OtherLine, NotFoundLine>>,
           <<StaleLine, FoundLine>>, <<NotFoundLine, FoundLine>>,
           <<FoundLine, NotFoundLine>>, <<StaleLine, NotFoundLine>>,
           <<OtherLine, StaleLine>> }
FailedStdouts == { <<>>, <<FoundLine>> }

FindIdle ==
    /\ s_pc = "idle"
    /\ max_retries = 0
    /\ initial_delay = 0
    /\ s_attempt = 0
    /\ s_runs = <<>>
    /\ s_sleeps = <<>>
    /\ s_ret = NoSearchRet

\* the for loop moves to the next attempt, or ends and None is returned
NextAttempt ==
    IF s_attempt + 1 \in range(max_retries)
    THEN /\ s_attempt' = s_attempt + 1
         /\ s_pc' = "loop"
         /\ s_ret' = s_ret
    ELSE /\ s_attempt' = s_attempt
         /\ s_pc' = "done"
         /\ s_ret' = ReturnNone

\* subprocess.run raises: the except clause sleeps and continues, or
\* returns None after the last attempt
SearchRaises ==
    /\ s_pc = "loop"
    /\ s_runs' = Append(s_runs, RunRaises)
    /\ s_sleeps' = slept(s_sleeps, initial_delay, s_attempt, max_retries)
    /\ IF has_retry(s_attempt, max_retries)
       THEN NextAttempt
       ELSE s_pc' = "done" /\ s_ret' = ReturnNone /\ s_attempt' = s_attempt
    /\ UNCHANGED <<max_retries, initial_delay, notFindVars>>

\* the command exits with a non-zero code
SearchFails(stdout) ==
    /\ s_pc = "loop"
    /\ s_runs' = Append(s_runs, CompletedProcess(1, stdout))
    /\ s_sleeps' = slept(s_sleeps, initial_delay, s_attempt, max_retries)
    /\ IF has_retry(s_attempt, max_retries)
       THEN NextAttempt
       ELSE s_pc' = "done" /\ s_ret' = ReturnNone /\ s_attempt' = s_attempt
    /\ UNCHANGED <<max_retries, initial_delay, notFindVars>>

\* the command exits with code 0: its output is scanned
SearchOutputs(stdout) ==
    /\ s_pc = "loop"
    /\ s_runs' = Append(s_runs, CompletedProcess(0, stdout))
    /\ IF scan(stdout) # ""
       THEN /\ s_ret' = ReturnPath(scan(stdout))
            /\ s_pc' = "done"
            /\ UNCHANGED <<s_attempt, s_sleeps>>
       ELSE /\ s_sleeps' = slept(s_sleeps, initial_delay, s_attempt, max_retries)
            /\ NextAttempt
    /\ UNCHANGED <<max_retries, initial_delay, notFindVars>>

-----------------------------------------------------------------------------
(* update_renamed_record and update_rename_failed of src/src/sql_utils.py.  *)
(* A call is the list of the calls it makes on the connection and on the    *)
(* cursor; fault names the one of them that raises ("fetchone": the query   *)
(* has no row and fetchone()[0] raises TypeError).  rollback and close      *)
(* return.  A str is its number of characters; the value written to         *)
(* failure_reason is the prefix and the characters kept of error_message.   *)

SqlFunctions == {"update_renamed_record", "update_rename_failed"}

\* the calls of the try block in order
try_block(function) ==
    IF function = "update_renamed_record"
    THEN <<"cursor", "execute", "commit">>
    ELSE <<"cursor", "select", "fetchone", "execute", "commit">>

SqlFaults(function) ==
    {"none"} \cup { try_block(function)[i] : i \in 1..Len(try_block(function)) }

\* CHARACTER_MAXIMUM_LENGTH as fetchone()[0] holds it: NULL or an int
\* (-1 for a varchar(max) column)
Null == [null |-> TRUE, n |-> 0]
Length(n) == [null |-> FALSE, n |-> n]

default_max_length == 200
\* len("Rename operation failed: ")
message_prefix_length == 25

\* value or 200
max_length_or_default(reported) ==
    IF reported.null \/ reported.n = 0 THEN default_max_length ELSE reported.n

Max(x, y) == IF x >= y THEN x ELSE y
\* len(s[:k]) for a str s of n characters
slice_to(n, k) == IF k >= 0 THEN Min(n, k) ELSE Max(0, n + k)

\* final_message of update_rename_failed: the prefix and the number of
\* characters of error_message after it
final_message(reported, n) ==
    LET max_length == max_length_or_default(reported)
        available_length == max_length - message_prefix_length
        truncated_message == IF n > available_length
                             THEN slice_to(n, available_length) ELSE n
    IN
    [prefix |-> "Rename operation failed: ", rest |-> truncated_message]

NoWrite == [prefix |-> "", rest |-> 0]

\* no finally clause
finally_clause_absent(log) == <<>>

\* finally: if cursor: cursor.close()
finally_clause(log) ==
    IF \E i \in 1..Len(log) : log[i] = "cursor" THEN <<"close">> ELSE <<>>

\* the except clauses: conn.rollback() and raise
except_clause(fault) == IF fault = "none" THEN <<>> ELSE <<"rollback">>

\* one call of either function: the calls made in order, whether it returns
\* or raises and what, and the failure_reason handed to the UPDATE
update_call(function, fault, reported, n) ==
    LET block == try_block(function)
        made == IF fault = "none" THEN block
                ELSE SubSeq(block, 1, CHOOSE i \in 1..Len(block) : block[i] = fault)
        \* conn.cursor() raised: cursor is still None
        obtained == IF fault = "cursor" THEN <<>> ELSE made
        executed == \E i \in 1..Len(made) : made[i] = "execute"
    IN
    [calls |-> made \o except_clause(fault) \o finally_clause(obtained),
     st |-> IF fault = "none" THEN "return" ELSE "raise",
     raised |-> fault,
     executed |-> executed,
     failure_reason |-> IF executed /\ function = "update_rename_failed"
                        THEN final_message(reported, n) ELSE NoWrite]

NoUpdate == [calls |-> <<>>, st |-> "none", raised |-> "none", executed |-> FALSE,
             failure_reason |-> NoWrite]

\* the column lengths and message lengths tried
ReportedLengths == {Null} \cup { Length(n) : n \in {-1, 0, 1, 10, 24, 25, 26, 30, 200} }
MessageLengths == {0, 1, 5, 6, 20, 174, 175, 176, 300}

SqlIdle ==
    /\ d_pc = "idle"
    /\ d_function = "none"
    /\ d_fault = "none"
    /\ d_reported = Null
    /\ error_message = 0
    /\ d_out = NoUpdate

UpdateCall(function, fault, reported, n) ==
    /\ d_pc = "idle"
    /\ d_function' = function
    /\ d_fault' = fault
    /\ d_reported' = reported
    /\ error_message' = n
    /\ d_out' = update_call(function, fault, reported, n)
    /\ d_pc' = "done"
    /\ UNCHANGED notSqlVars

-----------------------------------------------------------------------------
(* The contract_payments table as get_failed_unprocessed_records,           *)
(* update_renamed_record and update_rename_failed of src/src/sql_utils.py   *)
(* read and write it.  A row is the four columns the SELECT tests; a text   *)
(* column is its leading words and the number of characters after them, a   *)
(* deal_name its client and its category.  A run is one SELECT followed by  *)
(* one update call for each record it returned; an update that raises is    *)
(* rolled back and leaves the table as it was.                              *)

SqlNull == [null |-> TRUE, prefix |-> "", rest |-> 0]
Reason(prefix, rest) == [null |-> FALSE, prefix |-> prefix, rest |-> rest]
DealName(client, category) == [client |-> client, category |-> category]
Row(status, has_been_renamed, failure_reason, deal_name) ==
    [status |-> status, has_been_renamed |-> has_been_renamed,
     failure_reason |-> failure_reason, deal_name |-> deal_name]

\* failure_reason LIKE 'File pattern does not match%'
like_file_pattern(reason) ==
    ~reason.null /\ reason.prefix = "File pattern does not match"

\* deal_name LIKE '% - Housing Cost' OR ... '% - Home rent' OR ...
\* '% - Home Mortgage Interest'
like_housing_deal(deal_name) ==
    deal_name.category \in {" - Housing Cost", " - Home rent",
                            " - Home Mortgage Interest"}

\* the WHERE clause of the SELECT
where_clause(row) ==
    /\ row.status = "Failed"
    /\ row.has_been_renamed = 0
    /\ like_file_pattern(row.failure_reason)
    /\ like_housing_deal(row.deal_name)

\* SELECT TOP 50
top_rows == 50

\* ORDER BY contract_payments_id
RECURSIVE order_by_id(_)
order_by_id(ids) ==
    IF ids = {} THEN <<>>
    ELSE LET least == CHOOSE i \in ids : \A j \in ids : i <= j
         IN <<least>> \o order_by_id(ids \ {least})

\* the ids of the rows that cursor.fetchall() returns
get_failed_unprocessed_records(table) ==
    LET matching == order_by_id({ id \in DOMAIN table : where_clause(table[id]) })
    IN SubSeq(matching, 1, Min(top_rows, Len(matching)))

\* update_fields of update_renamed_record
update_renamed_fields(row) ==
    [row EXCEPT !.status = "New_DocClassification",
                !.has_been_renamed = 1,
                !.failure_reason = SqlNull]

\* update_fields of update_rename_failed
update_rename_failed_fields(row, message) ==
    [row EXCEPT !.has_been_renamed = 1,
                !.failure_reason = Reason(message.prefix, message.rest)]

\* an UPDATE whose WHERE clause matches no row
sql_update_no_row(table, id, row) == table

\* UPDATE contract_payments SET ... WHERE contract_payments_id = ?
sql_update(table, id, row) ==
    IF id \in DOMAIN table THEN [table EXCEPT ![id] = row] ELSE table

\* the table after one call of either function for the record id: the UPDATE
\* is kept when the call returns, so after conn.commit(), and undone by
\* conn.rollback() when a call of the try block raises
table_after(table, function, id, fault, reported, n) ==
    LET out == update_call(function, fault, reported, n)
        row == IF function = "update_renamed_record"
               THEN update_renamed_fields(table[id])
               ELSE update_rename_failed_fields(table[id], out.failure_reason)
        executed == IF out.executed THEN sql_update(table, id, row) ELSE table
    IN IF out.st = "return" THEN executed ELSE table

\* the rows tried: one selected for each category, and one failing each
\* condition of the WHERE clause
FilePattern == Reason("File pattern does not match", 12)
SampleRows ==
    { Row("Failed", 0, FilePattern, DealName("Smith", category)) :
        category \in {" - Housing Cost", " - Home rent",
                      " - Home Mortgage Interest"} }
    \cup { Row("New", 0, FilePattern, DealName("Smith", " - Home rent")),
           Row("Failed", 1, FilePattern, DealName("Smith", " - Home rent")),
           Row("Failed", 0, Reason("File not found", 12),
               DealName("Smith", " - Home rent")),
           Row("Failed", 0, SqlNull, DealName("Smith", " - Home rent")),
           Row("Failed", 0, FilePattern, DealName("Smith", " - Salary")) }

TableIdle ==
    /\ contract_payments = <<>>
    /\ t_runs = <<>>
    /\ t_pending = {}

\* the ids of a list of records
Ids(records) == { records[i] : i \in 1..Len(records) }

\* a run starts: get_failed_unprocessed_records(conn)
SelectRecords ==
    /\ contract_payments # <<>>
    /\ t_pending = {}
    /\ Len(t_runs) < MaxFetches
    /\ LET records == get_failed_unprocessed_records(contract_payments)
       IN /\ t_runs' = Append(t_runs, [selected |-> records, committed |-> {},
                                       rolled_back |-> {}])
          /\ t_pending' = Ids(records)
    /\ UNCHANGED <<contract_payments, notTableVars>>

\* update_renamed_record(conn, id, ...) or update_rename_failed(conn, id, ...)
\* for a record of the run
UpdateRecord(function, id, fault, reported, n) ==
    /\ id \in t_pending
    /\ contract_payments' =
           table_after(contract_payments, function, id, fault, reported, n)
    /\ t_runs' = [t_runs EXCEPT ![Len(t_runs)] =
                     IF update_call(function, fault, reported, n).st = "return"
                     THEN [@ EXCEPT !.committed = @ \cup {id}]
                     ELSE [@ EXCEPT !.rolled_back = @ \cup {id}]]
    /\ t_pending' = t_pending \ {id}
    /\ UNCHANGED notTableVars

-----------------------------------------------------------------------------
(* main of src/src/main.py from the count of the deals found on.  deals_info *)
(* is the list of its items in insertion order; a deal is its key and        *)
(* whether its list of files is non-empty.  A batch is one pass of the while *)
(* loop up to the count of the deals left.                                   *)

Deal(key, has_files) == [deal |-> key, has_files |-> has_files]

\* s[:k] for a list s
list_slice_to(s, k) == SubSeq(s, 1, slice_to(Len(s), k))

\* the items of deals_info without the keys deleted
RECURSIVE del_keys(_, _)
del_keys(info, keys) ==
    IF info = <<>> THEN <<>>
    ELSE IF \E i \in 1..Len(keys) : keys[i] = Head(info)
         THEN del_keys(Tail(info), keys)
         ELSE <<Head(info)>> \o del_keys(Tail(info), keys)

\* number_to_process = min(number_to_process, total_deals)
number_to_process_of(entered, total) == Min(entered, total)

NoBatch == [entered |-> 0, remaining |-> 0, number_to_process |-> 0,
            deals_to_process |-> <<>>, handled |-> <<>>, raised |-> FALSE,
            left |-> 0]

\* one pass of the loop body for the integer entered; fault is the place in
\* deals_to_process of a deal whose process_files call raises, 0 for none
batch(info, total, entered, fault) ==
    LET number_to_process == number_to_process_of(entered, total)
        deals_to_process == list_slice_to(info, number_to_process)
        raised == fault \in 1..Len(deals_to_process)
        \* the deals the first for loop went through
        handled == IF raised THEN SubSeq(deals_to_process, 1, fault)
                   ELSE deals_to_process
        after == IF raised THEN info ELSE del_keys(info, deals_to_process)
    IN
    [entered |-> entered, remaining |-> total,
     number_to_process |-> number_to_process,
     deals_to_process |-> deals_to_process, handled |-> handled,
     raised |-> raised, left |-> Len(after), info |-> after]

\* the integers entered at the prompt
Entered == {0 - MaxDeals - 1, -1, 0, 1, 2, MaxDeals + 1}

\* the places where process_files can raise in the batch of the integer
\* entered: the deals of the batch that have files
BatchFaults(info, total, entered) ==
    LET deals_to_process == batch(info, total, entered, 0).deals_to_process
    IN {0} \cup { i \in 1..Len(deals_to_process) : deals_to_process[i].has_files }

\* while total_deals > 0: one batch for an integer typed at the prompt
MainBatch(entered, fault) ==
    /\ m_pc = "while"
    /\ total_deals > 0
    /\ Len(m_batches) < MaxBatches
    /\ LET done == batch(deals_info, total_deals, entered, fault)
       IN /\ deals_info' = done.info
          /\ total_deals' = IF done.raised THEN total_deals ELSE Len(done.info)
          /\ m_batches' = Append(m_batches,
                 [entered |-> done.entered, remaining |-> done.remaining,
                  number_to_process |-> done.number_to_process,
                  deals_to_process |-> done.deals_to_process,
                  handled |-> done.handled, raised |-> done.raised,
                  left |-> done.left])
          /\ m_pc' = IF done.raised THEN "raised"
                     ELSE IF Len(done.info) > 0 THEN "continue" ELSE "while"
    /\ UNCHANGED notMainVars

\* int(input(...)) on an entry that is not an integer: ValueError, logged and
\* raised again
MainNotAnInteger ==
    /\ m_pc = "while"
    /\ total_deals > 0
    /\ m_pc' = "raised"
    /\ UNCHANGED <<deals_info, total_deals, m_batches, notMainVars>>

\* the answers typed at the second prompt
Answers == {"yes", "YES", "Yes", "no", "y", ""}

\* Do you want to continue processing? (yes/no)
MainContinue(answer) ==
    /\ m_pc = "continue"
    /\ m_pc' = IF Lower(answer) # "yes" THEN "done" ELSE "while"
    /\ UNCHANGED <<deals_info, total_deals, m_batches, notMainVars>>

\* the loop ends with no deal left
MainReturns ==
    /\ m_pc = "while"
    /\ total_deals = 0
    /\ m_pc' = "done"
    /\ UNCHANGED <<deals_info, total_deals, m_batches, notMainVars>>
MainIdle ==
    /\ m_pc = "idle"
    /\ deals_info = <<>>
    /\ total_deals = 0
    /\ m_batches = <<>>
UtilIdle ==
    /\ RenameIdle /\ RaceIdle /\ ValidateIdle /\ FindIdle /\ SqlIdle
    /\ TableIdle /\ MainIdle

\* the idle state of every direct call added to the three above
CallsIdle ==
    ConvertIdle /\ QualityIdle /\ WorkersIdle /\ FilesIdle /\ JpegIdle /\ UtilIdle

\* the max_pages arguments tried
Limits == {NoLimit} \cup { Limit(k) : k \in 0..MaxDocPages }

\* convert_pdf_to_images(pdf_path, save_dir, max_pages) on a document of n
\* pages
ConvertCall(n, limit, fault) ==
    /\ c_total_pages' = n
    /\ c_max_pages' = limit
    /\ c_fault' = fault
    /\ c_out' = convert_pdf_to_images(n, limit, fault)
    /\ c_pc' = "done"
    /\ UNCHANGED notConvertVars

\* measures on either side of each threshold
FocusMeasures == {0, 99, 100, 101}
HistSpreads == {0, 4, 5, 6}
Confidences == {-1, 0, 9, 10, 11, 95}
ConfidenceLists ==
    {<<>>} \cup { <<a>> : a \in Confidences }
           \cup { <<a, b>> : a \in Confidences, b \in Confidences }

\* check_image_quality(image_path) on an image with the given measures
QualityCall(fm, spread, confs) ==
    /\ focus_measure' = fm
    /\ hist_spread' = spread
    /\ confidences' = confs
    /\ LET focus == check_focus_measure(fm)
           histogram == check_histogram_spread(spread)
           ocr_confidence == check_ocr_confidence(confs)
       IN /\ results' = [focus |-> focus, histogram |-> histogram,
                         ocr_confidence |-> ocr_confidence]
          /\ q_ret' = check_image_quality(focus, histogram, ocr_confidence)
    /\ q_pc' = "done"
    /\ UNCHANGED notQualityVars

-----------------------------------------------------------------------------
(* Specifications *)

\* one invocation of classify_file or of communicate_with_api
Init == PipeIdle /\ ParseIdle /\ BackoffIdle /\ CallsIdle

Next ==
    \/ \E ext \in Extensions, n \in 0..MaxDocPages : CallClassifyFile(ext, n)
    \/ \E limit \in 1..MaxRetryLimit : CallCommunicate(limit)
    \/ RenderPdf
    \/ PdfPage
    \/ PdfFinish
    \/ ProcessImage
    \/ ProcessUnsupported
    \/ \E env \in Responses : RemoteResponse(env)
    \/ \E kind \in APIErrorKinds : RemoteAPIError(kind)
    \/ \E kind \in OtherErrorKinds : RemoteOtherError(kind)

Spec == Init /\ [][Next]_vars

\* parse_api_response on every envelope
InitParse ==
    /\ PipeIdle /\ BackoffIdle /\ CallsIdle
    /\ p_pc = "call"
    /\ response_data \in Envelopes
    /\ p_ret = NoRet

NextParse == ParseCall

SpecParse == InitParse /\ [][NextParse]_vars

\* exponential_backoff on every retry number
NextBackoff == \E n \in 0..MaxRetryNumber : BackoffCall(n)

SpecBackoff == Init /\ [][NextBackoff]_vars

\* convert_pdf_to_images on every document, limit and failure
NextConvert ==
    \E n \in 0..MaxDocPages, limit \in Limits :
        \E fault \in Faults(n) : ConvertCall(n, limit, fault)

SpecConvert == Init /\ [][NextConvert]_vars

\* check_image_quality on every combination of measures
NextQuality ==
    \E fm \in FocusMeasures, spread \in HistSpreads, confs \in ConfidenceLists :
        QualityCall(fm, spread, confs)

SpecQuality == Init /\ [][NextQuality]_vars

\* two callers, each about to process its document
InitWorkers ==
    /\ PipeIdle /\ ParseIdle /\ BackoffIdle /\ ConvertIdle /\ QualityIdle
    /\ FilesIdle /\ JpegIdle /\ UtilIdle
    /\ w_doc \in [Callers -> Docs]
    /\ w_pc = [c \in Callers |-> "save"]
    /\ w_index = [c \in Callers |-> 0]
    /\ w_disk = [f \in Paths |-> NoPicture]
    /\ w_assessed = [c \in Callers |-> <<>>]
    /\ w_verdicts = [c \in Callers |-> <<>>]
    /\ w_poor = [c \in Callers |-> 0]
    /\ w_data = [c \in Callers |-> <<>>]
    /\ w_ret = [c \in Callers |-> NoProc]

NextWorkers ==
    \E c \in Callers :
        \/ WorkerSave(c)
        \/ WorkerAssess(c)
        \/ WorkerEncode(c)
        \/ WorkerFinish(c)

SpecWorkers == InitWorkers /\ [][NextWorkers]_vars

\* process_files on every list of up to MaxFiles different files
FileLists ==
    { fs \in UNION { [1..n -> FileNames] : n \in 1..MaxFiles } :
        \A i \in 1..Len(fs), j \in 1..Len(fs) : i # j => fs[i] # fs[j] }

InitFiles ==
    /\ PipeIdle /\ ParseIdle /\ BackoffIdle /\ ConvertIdle /\ QualityIdle
    /\ WorkersIdle /\ JpegIdle /\ UtilIdle
    /\ f_pc = "loop"
    /\ files \in FileLists
    /\ directory = { files[i] : i \in 1..Len(files) }
    /\ f_next = 1
    /\ status_log = <<>>
    /\ history = <<>>

NextFiles ==
    \/ \E outcome \in ClassifyOutcomes, renamed \in BOOLEAN :
          ProcessFile(outcome, renamed)
    \/ ProcessFilesReturns
    \/ ProcessFilesAgain

SpecFiles == InitFiles /\ [][NextFiles]_vars

\* the two JPEG writers on an image of every mode
NextJpeg ==
    \E function \in JpegFunctions, mode \in Modes : JpegCall(function, mode)

SpecJpeg == Init /\ [][NextJpeg]_vars

\* rename_file of file_utils.py in every directory
InitRename ==
    /\ PipeIdle /\ ParseIdle /\ BackoffIdle
    /\ ConvertIdle /\ QualityIdle /\ WorkersIdle /\ FilesIdle /\ JpegIdle
    /\ RaceIdle /\ ValidateIdle /\ FindIdle /\ SqlIdle /\ TableIdle /\ MainIdle
    /\ os_name \in Platforms
    /\ r_pc = "call"
    /\ r_disk \in Disks
    /\ r_before = {}
    /\ r_original = <<>>
    /\ r_new_name = <<>>
    /\ r_fault = "none"
    /\ r_ret = NotCalled

NextRename ==
    \E original_path \in Originals, new_name \in NewNames, fault \in RenameFaults :
        RenameCall(original_path, new_name, fault)

SpecRename == InitRename /\ [][NextRename]_vars

\* two callers of rename_file about to test their first new_path
InitRace ==
    /\ PipeIdle /\ ParseIdle /\ BackoffIdle
    /\ ConvertIdle /\ QualityIdle /\ WorkersIdle /\ FilesIdle /\ JpegIdle
    /\ r_pc = "idle" /\ r_disk = {} /\ r_before = {} /\ r_original = <<>>
    /\ r_new_name = <<>> /\ r_fault = "none" /\ r_ret = NotCalled
    /\ ValidateIdle /\ FindIdle /\ SqlIdle /\ TableIdle /\ MainIdle
    /\ os_name \in Platforms
    /\ k_pc = [c \in Renamers |-> "exists"]
    /\ k_disk \in RaceDisks
    /\ k_original = [c \in Renamers |-> Sources[c]]
    /\ k_new_name = <<Text("target")>>
    /\ k_new_path = [c \in Renamers |-> <<Text("target"), Text(".pdf")>>]
    /\ k_counter = [c \in Renamers |-> 1]
    /\ k_ret = [c \in Renamers |-> NotCalled]

NextRace ==
    \E c \in Renamers :
        \/ RaceExists(c)
        \/ RaceRename(c)

SpecRace == InitRace /\ [][NextRace]_vars

\* validate_new_filename on every value
InitValidate ==
    /\ PipeIdle /\ ParseIdle /\ BackoffIdle
    /\ ConvertIdle /\ QualityIdle /\ WorkersIdle /\ FilesIdle /\ JpegIdle
    /\ RenameIdle /\ RaceIdle /\ FindIdle /\ SqlIdle /\ TableIdle /\ MainIdle
    /\ v_pc = "call"
    /\ filename \in Filenames
    /\ v_ret = NotValidated

NextValidate == ValidateCall

SpecValidate == InitValidate /\ [][NextValidate]_vars

\* find_file_path with every max_retries, the default initial_delay and a
\* shorter one
InitFind ==
    /\ PipeIdle /\ ParseIdle /\ BackoffIdle
    /\ ConvertIdle /\ QualityIdle /\ WorkersIdle /\ FilesIdle /\ JpegIdle
    /\ RenameIdle /\ RaceIdle /\ ValidateIdle /\ SqlIdle /\ TableIdle /\ MainIdle
    /\ s_pc = "loop"
    /\ max_retries \in 1..MaxRetries
    /\ initial_delay \in {1, default_initial_delay}
    /\ s_attempt = 0
    /\ s_runs = <<>>
    /\ s_sleeps = <<>>
    /\ s_ret = NoSearchRet

NextFind ==
    \/ SearchRaises
    \/ \E stdout \in FailedStdouts : SearchFails(stdout)
    \/ \E stdout \in Stdouts : SearchOutputs(stdout)

SpecFind == InitFind /\ [][NextFind]_vars

\* runs of one SELECT and the updates of its records on every table of
\* MaxRecords sample rows
InitTable ==
    /\ PipeIdle /\ ParseIdle /\ BackoffIdle
    /\ ConvertIdle /\ QualityIdle /\ WorkersIdle /\ FilesIdle /\ JpegIdle
    /\ RenameIdle /\ RaceIdle /\ ValidateIdle /\ FindIdle /\ SqlIdle /\ MainIdle
    /\ contract_payments \in [1..MaxRecords -> SampleRows]
    /\ t_runs = <<>>
    /\ t_pending = {}

NextTable ==
    \/ SelectRecords
    \/ \E function \in SqlFunctions, id \in 1..MaxRecords,
          reported \in {Null, Length(30)} :
          \E fault \in SqlFaults(function) :
              UpdateRecord(function, id, fault, reported, 20)

SpecTable == InitTable /\ [][NextTable]_vars
\* main on every list of up to MaxDeals deals, with and without files
DealLists ==
    UNION { { [i \in 1..n |-> Deal(i, has_files[i])] :
                has_files \in [1..n -> BOOLEAN] } : n \in 0..MaxDeals }

InitMain ==
    /\ PipeIdle /\ ParseIdle /\ BackoffIdle
    /\ ConvertIdle /\ QualityIdle /\ WorkersIdle /\ FilesIdle /\ JpegIdle
    /\ RenameIdle /\ RaceIdle /\ ValidateIdle /\ FindIdle /\ SqlIdle /\ TableIdle
    /\ m_pc = "while"
    /\ deals_info \in DealLists
    /\ total_deals = Len(deals_info)
    /\ m_batches = <<>>

NextMain ==
    \/ \E entered \in Entered :
          \E fault \in BatchFaults(deals_info, total_deals, entered) :
              MainBatch(entered, fault)
    \/ MainNotAnInteger
    \/ \E answer \in Answers : MainContinue(answer)
    \/ MainReturns

SpecMain == InitMain /\ [][NextMain]_vars
\* the two update functions with every failing call
NextSql ==
    \E function \in SqlFunctions, reported \in ReportedLengths, n \in MessageLengths :
        \E fault \in SqlFaults(function) : UpdateCall(function, fault, reported, n)

SpecSql == Init /\ [][NextSql]_vars

-----------------------------------------------------------------------------
(* Properties *)

Done == pc = "done"
ViaClassifyFile == entry = "classify_file"
AllPagesBad ==
    /\ Len(images) >= 1
    /\ Len(verdicts) = Len(images)
    /\ \A i \in 1..Len(verdicts) : verdicts[i] = "Bad"

\* C1: when every page of a supported input (a PDF rendering to 1..4 pages,
\* or one JPEG/PNG image) is judged Bad, classify_file returns
\* ('Unclassified - Poor image quality', None) and no remote call is made.
C1_AllBadShortCircuit ==
    (Done /\ ViaClassifyFile /\ AllPagesBad)
        => (result = Ret(PoorQuality, None) /\ calls = 0)

C1_Witness ==
    /\ Done /\ ViaClassifyFile /\ AllPagesBad
    /\ get_media_type(file_path) = "application/pdf"
    /\ Len(images) = max_pages
    /\ total_pages > max_pages

RenderedNothing ==
    /\ get_media_type(file_path) = "application/pdf"
    /\ proc_ret # NoProc
    /\ images = <<>>

\* C2: when rendering a PDF yields zero pages, classify_file returns the
\* unclassifiable failure (a null label with a diagnostic), not the
\* poor-image-quality outcome, and makes no remote call.
C2_ZeroPagesUnclassifiable ==
    (Done /\ ViaClassifyFile /\ RenderedNothing)
        => /\ result.st = "return"
           /\ result.a = None
           /\ result.b # None
           /\ result # Ret(PoorQuality, None)
           /\ calls = 0

\* C3: classify_file returns a pair for every input and never lets an
\* exception escape, whichever step of the pipeline fails.
C3_NeverRaises ==
    (Done /\ ViaClassifyFile) => result.st = "return"

ExhaustedMsg == Msg("API communication failed after maximum retries")
UnexpectedMsg == Msg("Unexpected error in API communication")

\* C4: with the default retry limit of 5, when every remote call raises a
\* rate-limit error, communicate_with_api makes exactly 5 remote calls and
\* returns (None, 'API communication failed after maximum retries').
C4_RateLimitExhausts ==
    (Done /\ retry_limit = default_retry_limit
          /\ outcomes_seen = {"RateLimitError"})
        => (calls = 5 /\ comm_ret = Ret(None, ExhaustedMsg))

C4_Witness ==
    /\ Done /\ retry_limit = default_retry_limit
    /\ outcomes_seen = {"RateLimitError"}
    /\ calls = 5
    /\ ViaClassifyFile

\* the errors the service reports as retryable: rate limit and server error
RetryableKinds == {"RateLimitError", "InternalServerError"}
\* errors that are neither a rate-limit nor a transient server error
FatalKinds == (APIErrorKinds \cup OtherErrorKinds) \ RetryableKinds

\* C5: a remote call that fails with an error that is neither a rate-limit
\* nor a transient server error is not retried: one remote call, no backoff
\* sleep, a failure pair returned.
C5_FatalNotRetried ==
    (outcomes_seen # {} /\ outcomes_seen \subseteq FatalKinds)
        => /\ Done
           /\ calls = 1
           /\ sleeps = <<>>
           /\ comm_ret.st = "return"
           /\ comm_ret.a = None

\* the kind of remote failure a value of communicate_with_api stands for
FailureKind(r) ==
    CASE r.st # "return" -> "none"
      [] r.a # None -> "none"
      [] r.b = ExhaustedMsg -> "exhausted"
      [] r.b = UnexpectedMsg -> "fatal"
      [] r.b = Msg("Content field missing or improperly formatted") -> "parse"
      [] r.b.t = "str" /\ r.b.s # <<>> /\ r.b.s[1] = "Failed to parse API response: "
           -> "parse"
      [] OTHER -> "none"

\* the values communicate_with_api returns for a remote failure
RemoteFailures ==
    { r \in {Ret(None, ExhaustedMsg), Ret(None, UnexpectedMsg)}
            \cup { parse_api_response(e) : e \in Responses } :
        FailureKind(r) # "none" }

\* C6: the pair classify_file returns tells the remote failure kinds apart
\* (retries exhausted, fatal error, unparseable response): a failure of
\* another kind never produces the same pair.
C6_FailureKindsDistinct ==
    (Done /\ ViaClassifyFile /\ FailureKind(comm_ret) # "none")
        => \A r \in RemoteFailures :
              FailureKind(r) # FailureKind(comm_ret)
                  => classify_after_communicate(r) # result

\* C7: for every retry_limit >= 1, when every remote call fails with a
\* retryable error, communicate_with_api makes exactly retry_limit remote
\* calls and returns (None, 'API communication failed after maximum retries').
C7_RetryLimitHonoured ==
    (Done /\ outcomes_seen # {} /\ outcomes_seen \subseteq RetryableKinds)
        => (calls = retry_limit /\ comm_ret = Ret(None, ExhaustedMsg))

HasText(rd) ==
    /\ rd.py = "dict" \/ rd.valid
    /\ rd.top = "obj" /\ rd.has_key /\ rd.content = "list" /\ rd.n_blocks >= 1
    /\ rd.block = "dict" /\ rd.text = "str"

\* the text as the service sent it, and as it is after the control
\* characters are removed
RawJson(rd) == json_loads(rd.chars)
CleanJson(rd) == json_loads(clean_text(rd.chars))
IsObject(j) == j.ok /\ j.val.t = "obj"
NonNullDiagnostic(r) == r.a = None /\ r.b.t = "str" /\ r.b # None

\* C9 as stated: for an envelope that is not valid JSON, has no non-empty
\* 'content' list, has a first block without text, or whose text is not
\* valid JSON or not a JSON object, parse_api_response returns (None, d)
\* with d a non-null diagnostic string, and it never raises.
C9_Original ==
    p_pc = "done" =>
        /\ p_ret.st = "return"
        /\ (~HasText(response_data) \/ ~IsObject(RawJson(response_data)))
              => NonNullDiagnostic(p_ret)

\* C9 as amended: the same, the validity of the text being judged after the
\* control characters U+0000-U+001F and U+007F-U+009F are removed from it,
\* as the function does before parsing.
C9_ParseFailureIsolated ==
    p_pc = "done" =>
        /\ p_ret.st = "return"
        /\ (~HasText(response_data) \/ ~IsObject(CleanJson(response_data)))
              => NonNullDiagnostic(p_ret)

C9_Witness ==
    /\ p_pc = "done"
    /\ HasText(response_data)
    /\ CleanJson(response_data).ok
    /\ CleanJson(response_data).val.t = "list"
    /\ p_ret = Ret(None, Str(<<"Failed to parse API response: ", "AttributeError">>))

GotResponse == "response" \in outcomes_seen
SomePageGood == \E i \in 1..Len(verdicts) : verdicts[i] = "Good"
LabelOf(j) == DictGet(j.val.m, ContentTypeKey)
IsLabelled(j) ==
    IsObject(j) /\ LabelOf(j).t = "str" /\ LabelOf(j).s # <<>>

\* C10 as stated: for a document with a Good page, when the remote call
\* returns an envelope whose first block's text is a JSON object with
\* ContentType = L, a non-empty string, communicate_with_api and
\* classify_file return (L, raw), raw the JSON serialisation of the object.
C10_Original ==
    (Done /\ GotResponse /\ HasText(api_response)
          /\ (ViaClassifyFile => SomePageGood)
          /\ IsLabelled(RawJson(api_response)))
        => LET j == RawJson(api_response) IN
           /\ comm_ret = Ret(LabelOf(j), Str(json_dumps(j.val)))
           /\ result = comm_ret

\* C10 as amended: the same for the text with its control characters
\* U+0000-U+001F and U+007F-U+009F removed: when that text is a JSON object
\* with ContentType = L, a non-empty string, both functions return (L, raw),
\* raw the non-null JSON serialisation of that object.
C10_LabelReturned ==
    (Done /\ GotResponse /\ HasText(api_response)
          /\ (ViaClassifyFile => SomePageGood)
          /\ IsLabelled(CleanJson(api_response)))
        => LET j == CleanJson(api_response) IN
           /\ comm_ret = Ret(LabelOf(j), Str(json_dumps(j.val)))
           /\ result = comm_ret
           /\ result.b # None
           /\ api_response.chars = Obj1(QStr(<<"Rental_Contract">>))
                => result = Ret(Str(<<"Rental_Contract">>),
                                Str(Obj1(QStr(<<"Rental_Contract">>))))

C10_Witness ==
    /\ Done /\ GotResponse /\ ViaClassifyFile
    /\ get_media_type(file_path) = "application/pdf"
    /\ verdicts = <<"Good", "Good">>
    /\ api_response.chars = Obj1(QStr(<<"Rental_Contract">>))
    /\ result.a = Str(<<"Rental_Contract">>)
    /\ result.b.t = "str"

ConvertDone == c_pc = "done"
CalledWithMaxPages == c_max_pages = Limit(max_pages)

\* C11: for a PDF of N >= 0 pages converted without an error,
\* convert_pdf_to_images called with max_pages = 4 returns exactly min(N, 4)
\* images, the i-th being the rendering of page i, and reads no page of the
\* document at index 4 or more.
C11_FirstPagesInOrder ==
    (ConvertDone /\ CalledWithMaxPages /\ ~c_out.raised)
        => /\ Len(c_out.ret) = Min(c_total_pages, max_pages)
           /\ \A i \in 1..Len(c_out.ret) : c_out.ret[i] = Rendering(i - 1)
           /\ \A i \in c_out.accessed : i < max_pages

C11_Witness ==
    /\ ConvertDone /\ CalledWithMaxPages /\ ~c_out.raised
    /\ c_total_pages > max_pages
    /\ c_out.ret = <<1, 2, 3, 4>>
    /\ c_out.accessed = 0..3

IsPdf == get_media_type(file_path) = "application/pdf"
ReturnedList == proc_ret # NoProc /\ proc_ret.t = "list"
PagesOf(data) == [k \in 1..Len(data) |-> data[k].page]
\* the rendered pages judged Good, in the order of the list images
GoodPages ==
    LET good == SelectSeq([i \in 1..Len(images) |-> i],
                          LAMBDA i : verdicts[i] = "Good")
    IN [k \in 1..Len(good) |-> images[good[k]]]

\* C12: for a PDF, the payload process_file_for_api returns is exactly the
\* first min(N, 4) rendered pages that were judged Good, in page order and
\* one entry per page; it has at most 4 entries and holds no page judged Bad.
C12_PayloadIsGoodPages ==
    (ViaClassifyFile /\ IsPdf /\ ReturnedList)
        => /\ Len(images) <= Min(total_pages, 4)
           /\ \A i \in 1..Len(images) : images[i] = i
           /\ Len(verdicts) = Len(images)
           /\ PagesOf(proc_ret.items) = GoodPages
           /\ Len(proc_ret.items) <= 4
           /\ \A k \in 1..Len(proc_ret.items) :
                 verdicts[proc_ret.items[k].page] # "Bad"

C12_Witness ==
    /\ ViaClassifyFile /\ IsPdf /\ ReturnedList
    /\ total_pages > 4
    /\ verdicts = <<"Good", "Bad", "Good", "Bad">>
    /\ PagesOf(proc_ret.items) = <<1, 3>>

\* a remote call was made with the payload classify_file built
PayloadSent == ViaClassifyFile /\ calls >= 1

\* C13: the payload handed to the remote call never holds an entry whose
\* encoded data is null: a page for which encode_image_to_base64 returned
\* None has no entry, and the other pages are still sent.
C13_NoNullEntries ==
    PayloadSent => \A k \in 1..Len(image_data) : image_data[k].data # "None"

QualityDone == q_pc = "done"
AllThreeGood ==
    /\ results.focus = "Good"
    /\ results.histogram = "Good"
    /\ results.ocr_confidence = "Good"

\* C14: check_image_quality returns 'Good' if and only if the focus, the
\* histogram and the OCR check all return 'Good'; in each of the 8
\* combinations of sub-verdicts the result is their conjunction, so one 'Bad'
\* makes the page 'Bad'.
C14_QualityIsConjunction ==
    QualityDone
        => /\ results.focus \in SubVerdicts
           /\ results.histogram \in SubVerdicts
           /\ results.ocr_confidence \in SubVerdicts
           /\ q_ret \in SubVerdicts
           /\ (q_ret = "Good") <=> AllThreeGood

C14_Witness ==
    /\ QualityDone
    /\ results = [focus |-> "Good", histogram |-> "Good", ocr_confidence |-> "Bad"]
    /\ q_ret = "Bad"

\* the path ends in none of the four supported extensions, in any letter case
UnsupportedExtension == Lower(file_path) \notin {".pdf", ".jpg", ".jpeg", ".png"}

\* C15: for a path whose extension is not .pdf, .jpg, .jpeg or .png in any
\* letter case, process_file_for_api returns an empty list and renders and
\* assesses nothing, and classify_file returns (None, diagnostic) without
\* any remote call.
C15_UnsupportedRejected ==
    (ViaClassifyFile /\ UnsupportedExtension)
        => /\ images = <<>> /\ verdicts = <<>> /\ temp_files = <<>>
           /\ calls = 0
           /\ pc \in {"process", "done"}
           /\ Done => /\ proc_ret = ProcList(<<>>)
                       /\ result.st = "return"
                       /\ result.a = None
                       /\ result.b.t = "str" /\ result.b.s # <<>>

C15_Witness ==
    /\ ViaClassifyFile /\ Done
    /\ file_path = ".txt"
    /\ proc_ret = ProcList(<<>>)
    /\ result = Ret(None, Msg("Failed to process image data or unsupported file type"))

\* creating the sub-directory or saving a page's copy raised
StagingFailed == c_fault.at \in {"makedirs", "save"} /\ c_out.raised

\* C16: a failure to write the audit copy of a rendered page (creating the
\* document's sub-directory or saving the page image) does not change what
\* convert_pdf_to_images returns: it returns the rendered pages, as it does
\* when the write succeeds.
C16_StagingFailureHarmless ==
    (ConvertDone /\ StagingFailed)
        => c_out.ret = convert_pdf_to_images(c_total_pages, c_max_pages, NoFault).ret

\* what process_file_for_api returns for the document of caller c when no
\* other call runs: every page is assessed on its own picture
Alone(c) ==
    LET d == w_doc[c]
        good == SelectSeq([i \in 1..Len(d.pages) |-> i],
                          LAMBDA i : d.pages[i] # "Bad")
        data == [k \in 1..Len(good) |-> ImageEntry(Picture(c, good[k]), TRUE)]
    IN IF d.kind = "pdf"
       THEN pdf_return(Len(d.pages), Len(d.pages) - Len(good), data)
       ELSE IF good = <<>> THEN ProcStr(PoorQuality) ELSE ProcList(data)

\* C17: two classify_file calls running at the same time on different
\* documents do not interfere: every verdict of a call is computed from a
\* page image of its own document, and the call's outcome is the one it
\* produces when it runs alone, under every interleaving of the steps.
C17_NoInterference ==
    \A c \in Callers :
        /\ \A k \in 1..Len(w_assessed[c]) : w_assessed[c][k].doc = c
        /\ w_pc[c] = "done" => w_ret[c] = Alone(c)

\* classify_file returned a label (a str) together with a response
GotLabel(h) ==
    /\ h.outcome.st = "return"
    /\ h.outcome.a.t = "str"
    /\ h.outcome.b # None
KnownLabel(h) == GotLabel(h) /\ lower(h.outcome.a.s) \in valid_classifications
UnknownLabel(h) == GotLabel(h) /\ lower(h.outcome.a.s) \notin valid_classifications
\* classify_file returned no label: the service call or the preparation failed
NoLabel(h) == h.outcome.st = "return" /\ h.outcome.a = None
Completed(h) == h.line.status = "Completed"

\* C18: two responses whose ContentType strings differ only in letter case
\* (such as 'Contract_Payment' and 'contract_payment') are both accepted by
\* process_files and normalise to the same canonical label, the value used
\* to rename the file and to report the outcome.
C18_CaseVariantsNormalise ==
    \A i \in 1..Len(history), j \in 1..Len(history) :
        (/\ KnownLabel(history[i]) /\ KnownLabel(history[j])
         /\ lower(history[i].outcome.a.s) = lower(history[j].outcome.a.s))
            => /\ Completed(history[i]) /\ Completed(history[j])
               /\ history[i].classification = history[j].classification

\* C19: when the label returned for a file matches none of the six known
\* labels in any letter case, process_files does not rename the file and
\* records a failure status for it, a status different from the one it
\* records when the service call failed and no label came back.
C19_UnknownLabelDistinct ==
    \A i \in 1..Len(history) :
        UnknownLabel(history[i])
            => /\ history[i].file \in history[i].directory
               /\ history[i].line.status \notin {"none", "Completed"}
               /\ \A j \in 1..Len(history) :
                     NoLabel(history[j])
                         => history[j].line.status # history[i].line.status

JpegDone == j_pc = "done"

\* C20: every image is in the 3-channel mode RGB at the moment
\* encode_image_to_base64 or save_image_as_jpeg encodes it as JPEG, whatever
\* the colour mode of the input image (RGBA, grayscale, palette, CMYK).
C20_RgbWhenEncoded ==
    JpegDone => j_out.mode_at_save = "RGB"

RenameDone == r_pc = "done"
SourceExisted == exists(r_original, r_before)
\* "<base> (k)<ext>" for the base and the source of the call
Numbered(k) == r_new_name \o <<Counter(k)>> \o splitext(r_original)[2]
Collision ==
    /\ RenameDone
    /\ SourceExisted
    /\ r_fault = "none"
    /\ exists(r_new_name \o splitext(r_original)[2], r_before)

\* C21: when "<base><ext>" exists before rename_file(original_path, base) is
\* called on an existing file and os.rename succeeds, the call returns
\* (True, "<base> (k)<ext>") for the smallest k >= 1 whose path did not
\* exist, the data of the source is at that path, and every other file that
\* existed is still there under its name with its data.
C21_SmallestFreeCopy ==
    Collision =>
        \E k \in 1..(MaxCopies + 2) :
            /\ r_ret = Renamed(Numbered(k))
            /\ ~exists(Numbered(k), r_before)
            /\ \A j \in 1..(k - 1) : exists(Numbered(j), r_before)
            /\ \A f \in r_before :
                  IF f.name = r_original
                  THEN File(Numbered(k), f.data) \in r_disk
                  ELSE f \in r_disk

\* "target.pdf" and "target (1).pdf" exist: the file becomes "target (2).pdf"
C21_Witness ==
    /\ Collision
    /\ r_original = Original
    /\ r_ret = Renamed(Copy(2))

\* new_name with " (1)" before its extension
FirstCopyOf(new_name) ==
    splitext(new_name)[1] \o <<Counter(1)>> \o splitext(new_name)[2]

\* C22: after a successful rename_file(original_path, new_name) with a
\* complete file name as new_name, the original path is gone, the returned
\* path exists and it is new_name, or new_name with " (1)" before its
\* extension when new_name existed.
C22_NewNameIsFileName ==
    (RenameDone /\ r_ret.success /\ splitext(r_new_name)[2] # <<>>) =>
        /\ ~exists(r_original, r_disk)
        /\ exists(r_ret.path, r_disk)
        /\ \/ r_ret.path = r_new_name
           \/ /\ exists(r_new_name, r_before)
              /\ r_ret.path = FirstCopyOf(r_new_name)

RenameFailure == RenameDone /\ (~SourceExisted \/ r_fault # "none")

\* C24: when the source does not exist or os.rename raises, rename_file
\* returns (False, message), the message names the file and the exception,
\* no exception leaves the call and the files of the directory are the same.
C24_FailureReturned ==
    RenameFailure =>
        /\ r_ret.st = "return"
        /\ ~r_ret.success
        /\ r_ret.message.path = r_original
        /\ r_ret.message.cause =
              (IF r_fault # "none" THEN r_fault ELSE "FileNotFoundError")
        /\ r_disk = r_before

\* os.rename raises an exception that is no OSError in a directory with files
C24_Witness ==
    /\ RenameFailure
    /\ r_fault = "TypeError"
    /\ SourceExisted
    /\ r_ret.message.prefix = "Unexpected error renaming"

BothReturned == \A c \in Renamers : k_pc[c] = "done"

\* C23: once two concurrent rename_file calls on different files with the
\* same directory and new name have returned, the data of both source files
\* is still in the directory and two successful calls returned different
\* paths: no file was overwritten.
C23_BothSurvive ==
    BothReturned =>
        /\ \A c \in Renamers : \E f \in k_disk : f.data = Sources[c]
        /\ (k_ret[1].success /\ k_ret[2].success) => k_ret[1].path # k_ret[2].path

ValidateDone == v_pc = "done"
IsName == filename.t \in {"none", "str"}
Characters == IF filename.t = "str" THEN len(filename.runs) ELSE 0
Has(char) ==
    \E i \in 1..Len(filename.runs) : filename.runs[i].ch = char /\ filename.runs[i].n >= 1
Blank == filename.t = "none" \/ \A i \in 1..Len(filename.runs) : filename.runs[i].ch = " "
\* the message of the first check the name fails, "" if it passes all four;
\* a name has an extension when a "." occurs in it
FirstFailure ==
    IF Blank THEN "Filename cannot be empty"
    ELSE IF Characters >= 256 THEN "Filename is too long"
    ELSE IF \E char \in {"<", ">", ":", "\"", "/", "\\", "|", "?", "*"} : Has(char)
    THEN "Filename contains invalid characters"
    ELSE IF ~Has(".") THEN "Filename must have an extension"
    ELSE ""

SearchDone == s_pc = "done"
\* how the claims sort an attempt: by exception, then by exit code, then by
\* the first "RESULT:" line that is NOT_FOUND or names an existing path
Produced(run) ==
    IF run.raises THEN "exception"
    ELSE IF run.returncode # 0 THEN "exit code"
    ELSE LET decisive == { i \in 1..Len(run.stdout) :
                             /\ run.stdout[i].kind = "RESULT"
                             /\ \/ run.stdout[i].path = "NOT_FOUND"
                                \/ run.stdout[i].present }
         IN
         IF decisive = {} THEN "nothing"
         ELSE LET i == CHOOSE i \in decisive : \A j \in decisive : i <= j IN
              IF run.stdout[i].present THEN run.stdout[i].path ELSE "NOT_FOUND"
Failures == {"exception", "exit code", "NOT_FOUND", "nothing"}

\* C26: find_file_path makes at most max_retries subprocess calls, has
\* returned once it made max_retries of them, can always take its next step
\* before it returns, and returns None when no attempt produced an existing
\* path.
C26_BoundedAttempts ==
    /\ Len(s_runs) <= max_retries
    /\ Len(s_runs) = max_retries => SearchDone
    /\ s_pc = "loop" => ENABLED NextFind
    /\ (SearchDone /\ \A i \in 1..Len(s_runs) : Produced(s_runs[i]) \in Failures)
          => s_ret = ReturnNone

\* max_retries attempts of every failing kind, then None
C26_Witness ==
    /\ SearchDone
    /\ max_retries = 3
    /\ Len(s_runs) = 3
    /\ Produced(s_runs[1]) = "exception"
    /\ Produced(s_runs[2]) = "exit code"
    /\ s_runs[3] = CompletedProcess(0, <<OtherLine, StaleLine>>)
    /\ s_ret = ReturnNone

\* attempt j (1-based) is the first that produced an existing path and the
\* attempts before it failed by exception, exit code or NOT_FOUND
FirstFoundAt(j) ==
    /\ j \in 1..Len(s_runs)
    /\ Produced(s_runs[j]) \notin Failures
    /\ \A i \in 1..(j - 1) :
          Produced(s_runs[i]) \in {"exception", "exit code", "NOT_FOUND"}

\* C27: if attempt j is the first that produced an existing path and every
\* earlier attempt failed by exception, non-zero exit code or NOT_FOUND,
\* find_file_path returns that path after exactly j subprocess calls (j
\* counted from 1) and has slept initial_delay * i seconds after the i-th
\* attempt, for each i < j.
C27_ReturnsFirstFound ==
    \A j \in 1..MaxRetries + 1 :
        (SearchDone /\ FirstFoundAt(j)) =>
            /\ s_ret = ReturnPath(Produced(s_runs[j]))
            /\ Len(s_runs) = j
            /\ s_sleeps = [i \in 1..(j - 1) |-> initial_delay * i]

\* a timeout, NOT_FOUND, then the path: two sleeps of 10 and 20 seconds
C27_Witness ==
    /\ SearchDone
    /\ FirstFoundAt(3)
    /\ Produced(s_runs[1]) = "exception"
    /\ Produced(s_runs[2]) = "NOT_FOUND"
    /\ s_sleeps = <<10, 20>>

SqlDone == d_pc = "done"
Wrote == SqlDone /\ d_function = "update_rename_failed" /\ d_out.executed

\* C28: for every error message and every maximum length of one character
\* or more that the database reports for failure_reason, the value
\* update_rename_failed writes starts with "Rename operation failed: " and
\* has no more characters than that maximum length.
C28_FitsColumn ==
    (Wrote /\ ~d_reported.null /\ d_reported.n >= 1) =>
        /\ d_out.failure_reason.prefix = "Rename operation failed: "
        /\ 25 + d_out.failure_reason.rest <= d_reported.n

Times(call) == Cardinality({ i \in 1..Len(d_out.calls) : d_out.calls[i] = call })
CommitAfterRollback ==
    \E i \in 1..Len(d_out.calls), j \in 1..Len(d_out.calls) :
        i < j /\ d_out.calls[i] = "rollback" /\ d_out.calls[j] = "commit"

\* C29: a call of update_renamed_record or update_rename_failed in which
\* nothing raises commits once, never rolls back and returns; when an
\* execute or the commit raises it rolls back, commits nothing afterwards
\* and raises that exception; once conn.cursor() has returned, the last
\* call made is cursor.close().
C29_CommitOrRollback ==
    SqlDone =>
        /\ d_fault = "none" =>
              Times("commit") = 1 /\ Times("rollback") = 0 /\ d_out.st = "return"
        /\ d_fault \in {"select", "execute", "commit"} =>
              /\ Times("rollback") = 1
              /\ ~CommitAfterRollback
              /\ d_out.st = "raise"
              /\ d_out.raised = d_fault
        /\ d_fault # "cursor" =>
              /\ Times("close") = 1
              /\ d_out.calls[Len(d_out.calls)] = "close"

\* the commit of update_rename_failed raises
C29_Witness ==
    /\ SqlDone
    /\ d_function = "update_rename_failed"
    /\ d_fault = "commit"
    /\ d_out.calls = <<"cursor", "select", "fetchone", "execute", "commit",
                       "rollback", "close">>

DefaultLimit == retry_limit = default_retry_limit
Communicated == Done /\ comm_ret # NoRet
\* the three ways the loop of communicate_with_api ends: a remote call
\* returned a response, the handler reported the last attempt, or an
\* exception that is no APIError was raised
Succeeded == "response" \in outcomes_seen
ExhaustedRetries == comm_ret = Ret(None, ExhaustedMsg) /\ ~Succeeded
FatalError == comm_ret = Ret(None, UnexpectedMsg) /\ ~Succeeded
OutcomesReached ==
    { o \in {"Succeeded", "ExhaustedRetries", "FatalError"} :
        \/ o = "Succeeded" /\ Succeeded
        \/ o = "ExhaustedRetries" /\ ExhaustedRetries
        \/ o = "FatalError" /\ FatalError }

\* C30: with the default retry limit communicate_with_api makes at most 5
\* remote calls, can always take its next step while it is running, has
\* returned once it made 5 calls, and when it has returned it made at least
\* one call, ended in exactly one of Succeeded, ExhaustedRetries and
\* FatalError and returned a pair.
C30_TerminatesInOneOutcome ==
    DefaultLimit =>
        /\ calls <= 5
        /\ calls = 5 => pc # "communicate"
        /\ pc = "communicate" => ENABLED Next
        /\ Communicated =>
              /\ calls >= 1
              /\ comm_ret.st = "return"
              /\ Cardinality(OutcomesReached) = 1

\* two retried errors, then a response
C30_Witness ==
    /\ DefaultLimit
    /\ Communicated
    /\ entry = "communicate_with_api"
    /\ calls = 3
    /\ Len(sleeps) = 2
    /\ Succeeded

\* C31: the i-th remote call of a communicate_with_api invocation that is
\* followed by another call is followed by one sleep of
\* exponential_backoff(i - 1) seconds (i counted from 1) and there is never
\* more than one sleep per call made; when attempts 0 to k-1 failed with
\* retryable errors and attempt k < 5 received a response, k + 1 calls were
\* made and the result is the parse of that response.
C31_OneSleepBetweenCalls ==
    /\ Len(sleeps) <= calls
    /\ \A i \in 1..(calls - 1) :
          Len(sleeps) >= i /\ sleeps[i] = exponential_backoff(i - 1)
    /\ (Communicated /\ Succeeded /\ calls <= 5
          /\ outcomes_seen \subseteq ({"response"} \cup RetryableKinds)) =>
          /\ calls = Len(sleeps) + 1
          /\ comm_ret = parse_api_response(api_response)

\* three retryable failures, then a response on attempt 3
C31_Witness ==
    /\ Communicated
    /\ Succeeded
    /\ outcomes_seen = {"response", "RateLimitError", "InternalServerError"}
    /\ calls = 4
    /\ sleeps = <<6, 12, 24>>

ParseFailed == parse_try(api_response).st = "raise"

\* C32: once a remote call has returned a response communicate_with_api has
\* returned: the response is the last call, no sleep follows it, and when
\* its body cannot be parsed the value returned is the failure pair
\* (None, 'Failed to parse API response: ...') and no exception.
C32_NoRetryAfterResponse ==
    Succeeded =>
        /\ Done
        /\ calls = Len(sleeps) + 1
        /\ comm_ret.st = "return"
        /\ ParseFailed =>
              /\ comm_ret.a = None
              /\ comm_ret.b.s[1] = "Failed to parse API response: "

\* the first remote call returns a response whose body cannot be parsed
C32_Witness ==
    /\ Succeeded
    /\ ParseFailed
    /\ entry = "communicate_with_api"
    /\ calls = 1
    /\ sleeps = <<>>

\* C33: a sleep happens only when another attempt follows it: a call of
\* communicate_with_api that returns the retries-exhausted pair has slept
\* once less than it made remote calls, 90 seconds in all after 5 attempts.
C33_NoSleepAfterLastAttempt ==
    (Communicated /\ ExhaustedRetries) =>
        /\ Len(sleeps) = calls - 1
        /\ calls = 5 => Sum(sleeps) = 90

\* C34: process_files writes the status 'Completed' for a file only if the
\* file was renamed: its old name is gone from the directory and the new
\* file name of the status line is there.
C34_CompletedOnlyIfRenamed ==
    \A i \in 1..Len(history) :
        Completed(history[i]) =>
            /\ history[i].file \notin history[i].directory
            /\ history[i].line.new_filename \in history[i].directory

\* C35: a file that process_files has renamed is skipped as 'Already
\* classified' whenever a later iteration of process_files meets its new
\* path: classify_file is not called for it and it keeps its name.
C35_RenamedFilesSkipped ==
    \A i \in 1..Len(history) :
        WasRenamed(history[i]) =>
            /\ skip_reason(history[i].line.new_filename) = "Already classified"
            /\ \A j \in (i + 1)..Len(history) :
                  history[j].file = history[i].line.new_filename =>
                      /\ history[j].line.status = "Skipped - Already classified"
                      /\ history[j].outcome = NoRet
                      /\ history[j].file \in history[j].directory

\* a second file given the same label became "<label> (1)<ext>" and the
\* later call has skipped it
C35_Witness ==
    \E i \in 1..Len(history), j \in 1..Len(history) :
        /\ i < j
        /\ WasRenamed(history[i])
        /\ history[i].line.new_filename.n = 1
        /\ history[j].file = history[i].line.new_filename
        /\ history[j].line.status = "Skipped - Already classified"


-----------------------------------------------------------------------------
(* The contract_payments table over runs *)

\* the runs in which the record id was returned by the SELECT
SelectedIn(id) == { i \in 1..Len(t_runs) : id \in Ids(t_runs[i].selected) }

\* C36 as stated: over any sequence of runs no record is selected for
\* processing more than once.
C36_SelectedAtMostOnce ==
    \A id \in DOMAIN contract_payments : Cardinality(SelectedIn(id)) <= 1

\* C36, amended: once update_renamed_record or update_rename_failed has
\* committed for a record, the record no longer satisfies the WHERE clause of
\* get_failed_unprocessed_records and no later run selects it; a record whose
\* update raised and was rolled back may be selected again.
C36_NotSelectedAfterCommit ==
    \A i \in 1..Len(t_runs) :
        \A id \in t_runs[i].committed :
            /\ ~where_clause(contract_payments[id])
            /\ \A j \in (i + 1)..Len(t_runs) : j \notin SelectedIn(id)

\* a run committed an update for one record and rolled back the update of
\* another, and the next run selected the second and not the first
C36_Witness ==
    \E i \in 1..Len(t_runs), j \in 1..Len(t_runs) :
        /\ i < j
        /\ \E id \in t_runs[i].committed, other \in t_runs[i].rolled_back :
              /\ j \notin SelectedIn(id)
              /\ j \in SelectedIn(other)


-----------------------------------------------------------------------------
(* The batches of main *)

\* the batches in which the first for loop of main went through the deal
HandledIn(key) ==
    { i \in 1..Len(m_batches) :
        \E j \in 1..Len(m_batches[i].handled) : m_batches[i].handled[j].deal = key }

\* C37 as stated: for any integer entered as the batch size, the batch
\* processes at most min(entered, remaining) deals (none when that is
\* negative); each deal is processed at most once in a run, and the number of
\* pending deals never increases.
C37_BatchWithinEntered ==
    /\ \A i \in 1..Len(m_batches) :
          /\ Len(m_batches[i].handled)
                 <= Max(0, Min(m_batches[i].entered, m_batches[i].remaining))
          /\ m_batches[i].left <= m_batches[i].remaining
          /\ i > 1 => m_batches[i].remaining <= m_batches[i - 1].left
    /\ \A key \in 1..MaxDeals : Cardinality(HandledIn(key)) <= 1
    /\ total_deals = Len(deals_info)
    /\ m_batches # <<>> => total_deals <= m_batches[Len(m_batches)].remaining

=============================================================================
